---- MODULE Spec2Model ----
(***************************************************************************)
(* State-machine model of the peer-to-peer trust and injection core of     *)
(* wopr: the trust store (src/src/trust.ts), the rate and replay gates     *)
(* (src/src/rate-limit.ts) and the protocol engine (p2p part of            *)
(* src/src/cli.ts).                                                        *)
(*                                                                         *)
(* Signatures are modelled by the key that produced them: a value signed   *)
(* by key k carries sig = k, and verification under key k' succeeds        *)
(* exactly when sig = k'.  Times are integers in abstract clock units.     *)
(***************************************************************************)
EXTENDS Integers, Sequences, FiniteSets, TLC

VARIABLES
  now,        \* Date.now()
  grants,     \* access.json: sequence of AccessGrant records
  peers,      \* peers.json: sequence of Peer records
  rotLog,     \* history: rotations processPeerKeyRotation accepted on a grant
  ops,        \* number of trust-store calls made so far
  limits,     \* RateLimiter.limits: the configuration of each limit class
  rl,         \* RateLimiter.state: (peerKey, limitType) -> RateLimitState
  rlRet,      \* the last RateLimiter.check call and the value it returned
  rlBlocked,  \* history: the blockedUntil in force when check last returned false
  rlCalls,    \* number of RateLimiter.check calls made so far
  rlTrue,     \* history: the times at which check returned true, per (peerKey, limitType)
  seenNonces, \* ReplayProtector.seenNonces: nonce -> timestamp
  rpRet,      \* the last ReplayProtector.check call and the value it returned
  rpAccepted, \* history: (nonce, time) of the checks that returned true
  rpCalls,    \* number of ReplayProtector calls made so far
  me,         \* Identity.publicKey of the node that makes the outbound calls
  helloVersions,  \* the versions the caller's build offers in its hello
  iPeers,     \* peers.json of that node
  call,       \* the outbound call in progress (claimToken or sendP2PInject)
  calls,      \* number of outbound calls started so far
  conns,      \* the connections of the call: both ends' per-connection state
  nextNonce,  \* the next unused value of randomBytes(16)
  handled,    \* the last typed frame the listener handled, and its reply
  consumed,   \* the invite tokens the listener has acknowledged so far
  outsider,   \* whether the party holding key C has written its frame
  onInjectLog, \* the invocations of the listener's onInject handler
  disk,       \* the bytes of access.json and peers.json while a save is followed
  saving,     \* the save in progress: the file, its contents before and the new contents
  crashed,    \* whether the process was killed
  invites,    \* invites.json of the listener's node
  invRet,     \* the last operation made on the invite store
  awaiting    \* by connection: the inject whose onInject call has not returned, and its reply

trustVars == <<grants, peers, rotLog, ops>>
rateVars == <<limits, rl, rlRet, rlBlocked, rlCalls, rlTrue>>
replayVars == <<seenNonces, rpRet, rpAccepted, rpCalls>>
p2pVars == <<me, helloVersions, iPeers, call, calls, conns, nextNonce, handled, consumed, outsider, onInjectLog>>
fileVars == <<disk, saving, crashed>>
inviteVars == <<invites, invRet>>
awaitVars == <<awaiting>>
vars == <<now, trustVars, rateVars, replayVars, p2pVars, fileVars, inviteVars, awaitVars>>

\* ------------------------------------------------------------------------
\* Bounds of the model
\* ------------------------------------------------------------------------
MaxTime == 2
MaxGrants == 2
MaxPeers == 1
MaxHistory == 2
MaxGrace == 1
MaxOps == 3
MaxWindow == 2
MaxRequests == 2
MaxBlock == 2
MaxChecks == 5
MaxReplayCalls == 3
MaxNonces == 3
MaxConns == 2
\* ReplayProtector(maxAgeMs, maxClockSkewMs) and the size above which check
\* runs cleanup (300000, 30000 and 10000 in the program), scaled
MaxAgeMs == 1
MaxClockSkewMs == 1
CleanupThreshold == 2

\* ------------------------------------------------------------------------
\* Values
\* ------------------------------------------------------------------------
TrustKeys == {"B", "C"}
Sessions == {"dev", "prod"}
SessionPatterns == {{"dev"}, {"*"}}
CapSets == {{"inject"}, {"read"}}
NoEnc == "none"
Undef == -1

EncOf(k) == "e" \o k

\* shortKey: an 8-hex-character digest of the signing key
shortKey(k) == "s" \o k

\* `grant-${Date.now()}`
GrantId(t) == "grant-" \o ToString(t)

Times == 0..MaxTime

\* Array.prototype.findIndex / find: the first of the matching indices, 0 if none
FirstIndex(matching) ==
  IF matching = {} THEN 0
  ELSE CHOOSE i \in matching : \A j \in matching : i <= j

\* ------------------------------------------------------------------------
\* Trust store (src/src/trust.ts)
\* ------------------------------------------------------------------------

\* g.sessions.includes("*") || g.sessions.includes(session)
SessionMatch(g, session) == "*" \in g.sessions \/ session \in g.sessions

\* variant: the grace period includes its last instant
InGrace_Inclusive(h, t) == h.validUntil # 0 /\ t <= h.validUntil

\* history.validUntil && Date.now() < history.validUntil
InGrace(h, t) == h.validUntil # 0 /\ t < h.validUntil

\* variant: the scan of current keys does not skip revoked grants
isAuthorizedAt_NoRevokedCheck(gs, senderKey, session, t) ==
  \/ \E i \in 1..Len(gs) :
       /\ gs[i].peerKey = senderKey
       /\ SessionMatch(gs[i], session)
       /\ "inject" \in gs[i].caps
  \/ \E i \in 1..Len(gs) :
       /\ ~gs[i].revoked
       /\ SessionMatch(gs[i], session)
       /\ "inject" \in gs[i].caps
       /\ \E j \in 1..Len(gs[i].keyHistory) :
            /\ gs[i].keyHistory[j].publicKey = senderKey
            /\ InGrace(gs[i].keyHistory[j], t)

isAuthorizedAt(gs, senderKey, session, t) ==
  LET current == {i \in 1..Len(gs) : /\ ~gs[i].revoked
                                      /\ gs[i].peerKey = senderKey
                                      /\ SessionMatch(gs[i], session)
                                      /\ "inject" \in gs[i].caps}
  IN IF FirstIndex(current) # 0 THEN TRUE
     ELSE \E i \in 1..Len(gs) :
            /\ ~gs[i].revoked
            /\ SessionMatch(gs[i], session)
            /\ "inject" \in gs[i].caps
            /\ \E j \in 1..Len(gs[i].keyHistory) :
                 /\ gs[i].keyHistory[j].publicKey = senderKey
                 /\ InGrace(gs[i].keyHistory[j], t)

\* variant: the authorization that does not look at the session asked for
isAuthorized_AnySession(senderKey, session) ==
  \E s \in {"dev", "prod"} : isAuthorizedAt(grants, senderKey, s, now)

isAuthorized(senderKey, session) == isAuthorizedAt(grants, senderKey, session, now)

\* the predicate revokePeer and updateAccessGrant select a grant with
\* (peerName is never assigned by the program, so that disjunct never matches)
GrantMatches(g, idOrName) ==
  /\ ~g.revoked
  /\ \/ shortKey(g.peerKey) = idOrName
     \/ g.id = idOrName
     \/ g.peerKey = idOrName

GrantNames == TrustKeys \cup {shortKey(k) : k \in TrustKeys} \cup {GrantId(t) : t \in Times}

\* variant: grantAccess that replaces the sessions and caps of a live grant
grantAccessOn_Replace(gs, peerKey, sessions, caps, encryptPub, t) ==
  LET i == FirstIndex({j \in 1..Len(gs) : gs[j].peerKey = peerKey /\ ~gs[j].revoked})
  IN IF i # 0
     THEN [gs EXCEPT ![i].sessions = sessions,
                     ![i].caps = caps,
                     ![i].peerEncryptPub = IF encryptPub # NoEnc THEN encryptPub ELSE @]
     ELSE Append(gs, [id |-> GrantId(t), peerKey |-> peerKey, peerEncryptPub |-> encryptPub,
                      sessions |-> sessions, caps |-> caps, created |-> t,
                      revoked |-> FALSE, keyHistory |-> <<>>])

grantAccessOn(gs, peerKey, sessions, caps, encryptPub, t) ==
  LET i == FirstIndex({j \in 1..Len(gs) : gs[j].peerKey = peerKey /\ ~gs[j].revoked})
  IN IF i # 0
     THEN [gs EXCEPT ![i].sessions = @ \cup sessions,
                     ![i].caps = @ \cup caps,
                     ![i].peerEncryptPub = IF encryptPub # NoEnc THEN encryptPub ELSE @]
     ELSE Append(gs, [id |-> GrantId(t), peerKey |-> peerKey, peerEncryptPub |-> encryptPub,
                      sessions |-> sessions, caps |-> caps, created |-> t,
                      revoked |-> FALSE, keyHistory |-> <<>>])

\* variant: revocation that empties the grant's sessions and leaves the flag
revokePeerOn_ClearSessions(gs, idOrName) ==
  LET i == FirstIndex({j \in 1..Len(gs) : GrantMatches(gs[j], idOrName)})
  IN [gs EXCEPT ![i].sessions = {}]

revokePeerOn(gs, idOrName) ==
  LET i == FirstIndex({j \in 1..Len(gs) : GrantMatches(gs[j], idOrName)})
  IN [gs EXCEPT ![i].revoked = TRUE]

updateAccessGrantOn(gs, idOrName, sessions, caps) ==
  LET i == FirstIndex({j \in 1..Len(gs) : GrantMatches(gs[j], idOrName)})
  IN [gs EXCEPT ![i].sessions = sessions,
                ![i].caps = IF caps # {} THEN caps ELSE @]

addPeerOn(ps, publicKey, sessions, caps, encryptPub, t) ==
  LET i == FirstIndex({j \in 1..Len(ps) : ps[j].publicKey = publicKey})
  IN IF i # 0
     THEN [ps EXCEPT ![i].sessions = @ \cup sessions,
                     ![i].caps = @ \cup caps,
                     ![i].encryptPub = IF encryptPub # NoEnc THEN encryptPub ELSE @]
     ELSE Append(ps, [id |-> shortKey(publicKey), publicKey |-> publicKey, encryptPub |-> encryptPub,
                      sessions |-> sessions, caps |-> caps, added |-> t, keyHistory |-> <<>>])

\* verifyKeyRotation: the signature verifies under oldSignPub
\* (a rotation's newEncryptPub is the encryption key that belongs to newSignPub)
verifyKeyRotation(rotation) == rotation.sig = rotation.oldSignPub

RotGrantIdx(gs, rotation) ==
  FirstIndex({j \in 1..Len(gs) : gs[j].peerKey = rotation.oldSignPub /\ ~gs[j].revoked})

RotPeerIdx(ps, rotation) ==
  FirstIndex({j \in 1..Len(ps) : ps[j].publicKey = rotation.oldSignPub})

\* variant: the history entry ends at effectiveAt, without the grace period
RotValidUntil_NoGrace(rotation) == rotation.effectiveAt

RotValidUntil(rotation) == rotation.effectiveAt + rotation.gracePeriodMs

\* variant: the rotation is applied without verifying its signature
rotateGrants_Unverified(gs, rotation) ==
  LET i == RotGrantIdx(gs, rotation)
  IN IF i = 0 THEN gs
     ELSE [gs EXCEPT ![i].keyHistory =
                        Append(@, [publicKey |-> gs[i].peerKey,
                                   encryptPub |-> gs[i].peerEncryptPub,
                                   validFrom |-> gs[i].created,
                                   validUntil |-> RotValidUntil(rotation)]),
                     ![i].peerKey = rotation.newSignPub,
                     ![i].peerEncryptPub = EncOf(rotation.newSignPub)]

rotateGrants(gs, rotation) ==
  LET i == RotGrantIdx(gs, rotation)
  IN IF ~verifyKeyRotation(rotation) \/ i = 0 THEN gs
     ELSE [gs EXCEPT ![i].keyHistory =
                        Append(@, [publicKey |-> gs[i].peerKey,
                                   encryptPub |-> gs[i].peerEncryptPub,
                                   validFrom |-> gs[i].created,
                                   validUntil |-> RotValidUntil(rotation)]),
                     ![i].peerKey = rotation.newSignPub,
                     ![i].peerEncryptPub = EncOf(rotation.newSignPub)]

rotatePeers(ps, rotation) ==
  LET i == RotPeerIdx(ps, rotation)
  IN IF ~verifyKeyRotation(rotation) \/ i = 0 THEN ps
     ELSE [ps EXCEPT ![i].keyHistory =
                        Append(@, [publicKey |-> ps[i].publicKey,
                                   encryptPub |-> ps[i].encryptPub,
                                   validFrom |-> ps[i].added,
                                   validUntil |-> RotValidUntil(rotation)]),
                     ![i].publicKey = rotation.newSignPub,
                     ![i].encryptPub = EncOf(rotation.newSignPub),
                     ![i].id = shortKey(rotation.newSignPub)]

\* the value processPeerKeyRotation returns
rotationAccepted(gs, ps, rotation) ==
  /\ verifyKeyRotation(rotation)
  /\ (RotGrantIdx(gs, rotation) # 0 \/ RotPeerIdx(ps, rotation) # 0)

\* keyHistory.filter(h => !h.validUntil || h.validUntil > now)
RECURSIVE KeepHistory(_, _)
KeepHistory(hist, t) ==
  IF hist = <<>> THEN <<>>
  ELSE IF Head(hist).validUntil = 0 \/ Head(hist).validUntil > t
       THEN <<Head(hist)>> \o KeepHistory(Tail(hist), t)
       ELSE KeepHistory(Tail(hist), t)

\* variant: the cleanup that drops every history entry
cleanupOn_DropAll(rs, t) == [i \in 1..Len(rs) |-> [rs[i] EXCEPT !.keyHistory = <<>>]]

cleanupOn(rs, t) == [i \in 1..Len(rs) |-> [rs[i] EXCEPT !.keyHistory = KeepHistory(@, t)]]

Rotations ==
  [oldSignPub : TrustKeys, newSignPub : TrustKeys, effectiveAt : {0, now},
   gracePeriodMs : 0..MaxGrace, sig : TrustKeys]

\* ------------------------------------------------------------------------
\* Rate limiter (src/src/rate-limit.ts, class RateLimiter)
\* ------------------------------------------------------------------------
LimitClasses == {"connections", "claims", "injects", "invalidMessages"}
RateKeys == {"B", "C"}

\* DEFAULT_LIMITS in clock units of 30 s (injects: window below one unit)
DefaultLimits ==
  [c \in LimitClasses |->
     CASE c = "connections" -> [windowMs |-> 2, maxRequests |-> 10, blockDurationMs |-> 10]
       [] c = "claims" -> [windowMs |-> 2, maxRequests |-> 5, blockDurationMs |-> 10]
       [] c = "injects" -> [windowMs |-> 1, maxRequests |-> 10, blockDurationMs |-> 2]
       [] c = "invalidMessages" -> [windowMs |-> 2, maxRequests |-> 3, blockDurationMs |-> 20]]

\* the configurations the constructor is given in the rate-limiter specification
RateConfigs == [windowMs : 1..MaxWindow, maxRequests : 0..MaxRequests, blockDurationMs : 0..MaxBlock]

\* getState creates { requests: [] } on first use
RlFresh == [requests |-> <<>>, blockedUntil |-> Undef]

\* truthiness of an optional number
Truthy(x) == x # Undef /\ x # 0

\* requests.filter(ts => now - ts < windowMs)
RECURSIVE InWindow(_, _, _)
InWindow(requests, t, windowMs) ==
  IF requests = <<>> THEN <<>>
  ELSE IF t - Head(requests) < windowMs
       THEN <<Head(requests)>> \o InWindow(Tail(requests), t, windowMs)
       ELSE InWindow(Tail(requests), t, windowMs)

\* state.blockedUntil && now < state.blockedUntil
RlBlockedNow(st, t) == Truthy(st.blockedUntil) /\ t < st.blockedUntil

\* variant: an expired block is lifted but the recorded requests are kept
RlCleaned_KeepRequests(st, config, t) ==
  LET unblocked == IF Truthy(st.blockedUntil) /\ t >= st.blockedUntil
                   THEN [st EXCEPT !.blockedUntil = Undef] ELSE st
  IN [unblocked EXCEPT !.requests = InWindow(@, t, config.windowMs)]

\* the state after the expired block was cleared and old requests dropped
RlCleaned(st, config, t) ==
  LET unblocked == IF Truthy(st.blockedUntil) /\ t >= st.blockedUntil THEN RlFresh ELSE st
  IN [unblocked EXCEPT !.requests = InWindow(@, t, config.windowMs)]

\* the value check returns
rlCheckResult(st, config, t) ==
  /\ ~RlBlockedNow(st, t)
  /\ Len(RlCleaned(st, config, t).requests) < config.maxRequests

\* variant: a check made while blocked starts the block again
rlCheckState_Extend(st, config, t) ==
  IF RlBlockedNow(st, t) THEN [st EXCEPT !.blockedUntil = t + config.blockDurationMs]
  ELSE IF Len(RlCleaned(st, config, t).requests) >= config.maxRequests
       THEN [RlCleaned(st, config, t) EXCEPT !.blockedUntil = t + config.blockDurationMs]
       ELSE [RlCleaned(st, config, t) EXCEPT !.requests = Append(@, t)]

\* the state check leaves
rlCheckState(st, config, t) ==
  IF RlBlockedNow(st, t) THEN st
  ELSE IF Len(RlCleaned(st, config, t).requests) >= config.maxRequests
       THEN [RlCleaned(st, config, t) EXCEPT !.blockedUntil = t + config.blockDurationMs]
       ELSE [RlCleaned(st, config, t) EXCEPT !.requests = Append(@, t)]

\* ------------------------------------------------------------------------
\* Replay protector (src/src/rate-limit.ts, class ReplayProtector)
\* ------------------------------------------------------------------------
Nonces == 1..MaxNonces

\* variant: a timestamp exactly maxAgeMs old is refused
rpCheckResult_StrictAge(seen, nonce, timestamp, t) ==
  /\ ~(timestamp <= t - MaxAgeMs)
  /\ ~(timestamp > t + MaxClockSkewMs)
  /\ seen[nonce] = Undef

\* the value check returns
rpCheckResult(seen, nonce, timestamp, t) ==
  /\ ~(timestamp < t - MaxAgeMs)
  /\ ~(timestamp > t + MaxClockSkewMs)
  /\ seen[nonce] = Undef

\* cleanup: forget the nonces whose timestamp is older than now - maxAgeMs
rpCleanup(seen, t) ==
  [n \in DOMAIN seen |-> IF seen[n] # Undef /\ seen[n] < t - MaxAgeMs THEN Undef ELSE seen[n]]

\* the map check leaves: the nonce recorded, then cleanup when the map is large
rpCheckState(seen, nonce, timestamp, t) ==
  IF ~rpCheckResult(seen, nonce, timestamp, t) THEN seen
  ELSE LET recorded == [seen EXCEPT ![nonce] = timestamp]
       IN IF Cardinality({n \in DOMAIN recorded : recorded[n] # Undef}) > CleanupThreshold
          THEN rpCleanup(recorded, t)
          ELSE recorded


\* ------------------------------------------------------------------------
\* Protocol engine: frames, tokens and the listener (p2p part of src/src/cli.ts)
\* ------------------------------------------------------------------------
PROTOCOL_VERSION == 2
MIN_PROTOCOL_VERSION == 1

Self == "A"          \* the listening node: issuer of the invites
Impostor == "X"      \* another party that serves the listener's topic
Callers == {"B", "C"}

NoToken == [iss |-> "", sub |-> "", ses |-> {}, cap |-> {}, exp |-> 0, sig |-> ""]
NoPayload == [mode |-> "", key |-> "", senderEnc |-> ""]
NoVersions == {Undef}
NoRotation ==
  [oldSignPub |-> "", newSignPub |-> "", effectiveAt |-> 0, gracePeriodMs |-> 0, sig |-> ""]

\* the invites expire when the modelled time ends
TokenExp == MaxTime

\* an invite token for subject B on session "dev", signed by sig
Token(iss, sig) ==
  [iss |-> iss, sub |-> "B", ses |-> {"dev"}, cap |-> {"inject"}, exp |-> TokenExp, sig |-> sig]

\* the token A minted for B, the same with a forged signature, and a token
\* another node issued
Tokens == {Token(Self, Self), Token(Self, "C"), Token("C", "C")}

\* parseInviteToken throws unless the signature verifies under iss and exp > now
parseInviteTokenOk(token, t) == token.sig = token.iss /\ token.exp > t

\* ------------------------------------------------------------------------
\* Invite store (src/src/trust.ts, recordInvite .. removeInvite)
\* ------------------------------------------------------------------------

\* invites.find(i => i.token === tokenStr): index of the first record, 0 if none
InviteIdx(is, token) == FirstIndex({j \in 1..Len(is) : is[j].token = token})

\* recordInvite: parseInviteToken throws on a bad token; an existing record is returned
recordInviteOn(is, token, t) ==
  IF ~parseInviteTokenOk(token, t) \/ InviteIdx(is, token) # 0 THEN is
  ELSE Append(is, [token |-> token, peerKey |-> token.sub, sessions |-> token.ses,
                   created |-> t, expires |-> token.exp,
                   claimedAt |-> Undef, claimedBy |-> ""])

\* variant: markInviteClaimed without the test of claimedAt
markInviteClaimedOn_Overwrite(is, token, claimedBy, t) ==
  LET i == InviteIdx(is, token)
  IN IF i = 0 THEN is
     ELSE [is EXCEPT ![i].claimedAt = t, ![i].claimedBy = claimedBy]

markInviteClaimedOn(is, token, claimedBy, t) ==
  LET i == InviteIdx(is, token)
  IN IF i = 0 THEN is
     ELSE IF ~Truthy(is[i].claimedAt)
          THEN [is EXCEPT ![i].claimedAt = t, ![i].claimedBy = claimedBy]
          ELSE is

\* removeInvite: throws, changing nothing, when no record has the token
removeInviteOn(is, token) == SelectSeq(is, LAMBDA r : r.token # token)

NoInviteOp == [op |-> "none", token |-> NoToken, by |-> "", found |-> FALSE, claimed |-> FALSE]

InviteStoreInit ==
  /\ invites = <<>>
  /\ invRet = NoInviteOp

\* P2PMessage: one wide record; absent fields hold their empty value
NoFrame ==
  [v |-> 0, type |-> "none", from |-> "", sig |-> "", nonce |-> 0, ts |-> 0,
   versions |-> NoVersions, version |-> Undef, ephemeralPub |-> "", encryptPub |-> NoEnc,
   token |-> NoToken, session |-> "", payload |-> NoPayload, reason |-> "",
   keyRotation |-> NoRotation]

\* signMessage: the frame signed with the writer's key
Signed(frame, key) == [frame EXCEPT !.from = key, !.sig = key]

\* variant: a verification that accepts any signature that is present
verifySignature_AnySigner(msg) == msg.sig # ""

\* verifySignature(msg, msg.from)
verifySignature(msg) == msg.sig = msg.from

\* the ephemeral key pair generateEphemeralKeyPair makes for a connection
EphOf(side, c) == side \o ToString(c)

Max(S) == CHOOSE x \in S : \A y \in S : y <= x

\* the listener's frames
HelloAckFrame(version, c) ==
  Signed([NoFrame EXCEPT !.v = PROTOCOL_VERSION, !.type = "hello-ack", !.version = version,
                         !.ephemeralPub = EphOf("r", c)], Self)
AckFrame(session, encryptPub) ==
  Signed([NoFrame EXCEPT !.v = PROTOCOL_VERSION, !.type = "ack", !.session = session,
                         !.encryptPub = encryptPub], Self)
RejectFrame(session, reason) ==
  Signed([NoFrame EXCEPT !.v = PROTOCOL_VERSION, !.type = "reject", !.session = session,
                         !.reason = reason], Self)

\* getGrantForPeer: the non-revoked grant with this current key, else the
\* first non-revoked grant that lists the key in its history; 0 if none
getGrantForPeer(gs, peerKey) ==
  LET current == FirstIndex({i \in 1..Len(gs) : ~gs[i].revoked /\ gs[i].peerKey = peerKey})
  IN IF current # 0 THEN current
     ELSE FirstIndex({i \in 1..Len(gs) :
                        /\ ~gs[i].revoked
                        /\ \E j \in 1..Len(gs[i].keyHistory) : gs[i].keyHistory[j].publicKey = peerKey})

\* the inject branch decrypts without throwing
DecryptOk(msg, c, gs) ==
  IF msg.v >= 2 /\ msg.ephemeralPub # ""
  THEN msg.payload.mode = "ephemeral" /\ msg.payload.key = EphOf("r", c)
  ELSE /\ getGrantForPeer(gs, msg.from) # 0
       /\ gs[getGrantForPeer(gs, msg.from)].peerEncryptPub # NoEnc
       /\ msg.payload.mode = "static"
       /\ msg.payload.key = EncOf(Self)
       /\ msg.payload.senderEnc = gs[getGrantForPeer(gs, msg.from)].peerEncryptPub

\* what handling a frame leaves behind when nothing is written or changed
Dropped(hs) ==
  [reply |-> NoFrame, hs |-> hs, grants |-> grants, peers |-> peers, rl |-> rl,
   seen |-> seenNonces, onInject |-> FALSE]

\* rateLimiter.check(msg.from, limitType): the value and the new limiter state
RateOk(msg, limitType) == rlCheckResult(rl[<<msg.from, limitType>>], limits[limitType], now)
RateCharged(msg, limitType) ==
  [rl EXCEPT ![<<msg.from, limitType>>] = rlCheckState(@, limits[limitType], now)]

\* variant: the hello branch that settles on the lowest common version
HandleHello_LowestCommon(msg, hs, c) ==
  LET offered == IF msg.versions = NoVersions THEN {1} ELSE msg.versions
      commonVersions == {v \in offered : v >= MIN_PROTOCOL_VERSION /\ v <= PROTOCOL_VERSION}
  IN IF commonVersions = {}
     THEN [Dropped(hs) EXCEPT !.reply = RejectFrame("", "no common protocol version")]
     ELSE [Dropped(hs) EXCEPT !.reply = HelloAckFrame(CHOOSE x \in commonVersions :
                                                        \A y \in commonVersions : x <= y, c),
                              !.hs = TRUE]

\* hello branch of handleConnection
HandleHello(msg, hs, c) ==
  LET offered == IF msg.versions = NoVersions THEN {1} ELSE msg.versions
      commonVersions == {v \in offered : v >= MIN_PROTOCOL_VERSION /\ v <= PROTOCOL_VERSION}
  IN IF commonVersions = {}
     THEN [Dropped(hs) EXCEPT !.reply = RejectFrame("", "no common protocol version")]
     ELSE [Dropped(hs) EXCEPT !.reply = HelloAckFrame(Max(commonVersions), c), !.hs = TRUE]

\* key-rotation branch of handleConnection: before any signature or replay check
HandleKeyRotation(msg, hs) ==
  IF rotationAccepted(grants, peers, msg.keyRotation)
  THEN [Dropped(hs) EXCEPT !.grants = rotateGrants(grants, msg.keyRotation),
                           !.peers = rotatePeers(peers, msg.keyRotation),
                           !.reply = AckFrame("", NoEnc)]
  ELSE [Dropped(hs) EXCEPT !.reply = RejectFrame("", "invalid key rotation")]

\* variant: the claim branch without the comparison of token.sub with msg.from
HandleClaim_NoSubCheck(msg, hs, seen) ==
  LET base == [Dropped(hs) EXCEPT !.seen = seen, !.rl = RateCharged(msg, "claims")]
  IN IF ~RateOk(msg, "claims") THEN [base EXCEPT !.reply = RejectFrame("", "rate limited")]
     ELSE IF ~parseInviteTokenOk(msg.token, now)
          THEN [base EXCEPT !.reply = RejectFrame("", "invalid token")]
     ELSE IF msg.token.iss # Self
          THEN [base EXCEPT !.reply = RejectFrame("", "token not issued by this peer")]
     ELSE [base EXCEPT !.grants = grantAccessOn(grants, msg.from, msg.token.ses, msg.token.cap,
                                                msg.encryptPub, now),
                       !.reply = AckFrame("", EncOf(Self))]

\* claim branch of handleConnection, after the signature and replay checks
HandleClaim(msg, hs, seen) ==
  LET base == [Dropped(hs) EXCEPT !.seen = seen, !.rl = RateCharged(msg, "claims")]
  IN IF ~RateOk(msg, "claims") THEN [base EXCEPT !.reply = RejectFrame("", "rate limited")]
     ELSE IF ~parseInviteTokenOk(msg.token, now)
          THEN [base EXCEPT !.reply = RejectFrame("", "invalid token")]
     ELSE IF msg.token.iss # Self
          THEN [base EXCEPT !.reply = RejectFrame("", "token not issued by this peer")]
     ELSE IF msg.token.sub # msg.from
          THEN [base EXCEPT !.reply = RejectFrame("", "token not issued for you")]
     ELSE [base EXCEPT !.grants = grantAccessOn(grants, msg.from, msg.token.ses, msg.token.cap,
                                                msg.encryptPub, now),
                       !.reply = AckFrame("", EncOf(Self))]

\* variant: the inject branch acknowledges also when onInject throws
HandleInject_AckOnFailure(msg, hs, seen, c, handlerOk) ==
  LET base == [Dropped(hs) EXCEPT !.seen = seen, !.rl = RateCharged(msg, "injects")]
  IN IF ~RateOk(msg, "injects") THEN [base EXCEPT !.reply = RejectFrame(msg.session, "rate limited")]
     ELSE IF ~isAuthorized(msg.from, msg.session)
          THEN [base EXCEPT !.reply = RejectFrame(msg.session, "unauthorized")]
     ELSE IF ~DecryptOk(msg, c, grants)
          THEN [base EXCEPT !.reply = RejectFrame(msg.session, "inject failed")]
     ELSE [base EXCEPT !.reply = AckFrame(msg.session, NoEnc), !.onInject = TRUE]

\* inject branch of handleConnection, after the signature and replay checks;
\* handlerOk: onInject returns without throwing
HandleInject(msg, hs, seen, c, handlerOk) ==
  LET base == [Dropped(hs) EXCEPT !.seen = seen, !.rl = RateCharged(msg, "injects")]
  IN IF ~RateOk(msg, "injects") THEN [base EXCEPT !.reply = RejectFrame(msg.session, "rate limited")]
     ELSE IF ~isAuthorized(msg.from, msg.session)
          THEN [base EXCEPT !.reply = RejectFrame(msg.session, "unauthorized")]
     ELSE IF ~DecryptOk(msg, c, grants)
          THEN [base EXCEPT !.reply = RejectFrame(msg.session, "inject failed")]
     ELSE IF ~handlerOk
          THEN [base EXCEPT !.reply = RejectFrame(msg.session, "inject failed"), !.onInject = TRUE]
     ELSE [base EXCEPT !.reply = AckFrame(msg.session, NoEnc), !.onInject = TRUE]

\* variant: a frame that fails the replay check is dropped without a charge
HandleMsg_ReplayUncharged(msg, hs, c, handlerOk) ==
  IF msg.type = "garbage" THEN Dropped(hs)
  ELSE IF msg.type = "hello" /\ ~hs THEN HandleHello(msg, hs, c)
  ELSE IF msg.type \in {"hello", "hello-ack"} THEN Dropped(hs)
  ELSE IF msg.type = "key-rotation" /\ msg.keyRotation # NoRotation THEN HandleKeyRotation(msg, hs)
  ELSE IF ~verifySignature(msg)
       THEN [Dropped(hs) EXCEPT !.rl = RateCharged(msg, "invalidMessages")]
  ELSE IF ~rpCheckResult(seenNonces, msg.nonce, msg.ts, now)
       THEN Dropped(hs)
  ELSE IF msg.type = "claim" /\ msg.token # NoToken
       THEN HandleClaim(msg, hs, rpCheckState(seenNonces, msg.nonce, msg.ts, now))
  ELSE IF msg.type = "inject" /\ msg.payload # NoPayload /\ msg.session # ""
       THEN HandleInject(msg, hs, rpCheckState(seenNonces, msg.nonce, msg.ts, now), c, handlerOk)
  ELSE [Dropped(hs) EXCEPT !.seen = rpCheckState(seenNonces, msg.nonce, msg.ts, now)]

\* the data handler of handleConnection for one received line
HandleMsg(msg, hs, c, handlerOk) ==
  IF msg.type = "garbage" THEN Dropped(hs)
  ELSE IF msg.type = "hello" /\ ~hs THEN HandleHello(msg, hs, c)
  ELSE IF msg.type \in {"hello", "hello-ack"} THEN Dropped(hs)
  ELSE IF msg.type = "key-rotation" /\ msg.keyRotation # NoRotation THEN HandleKeyRotation(msg, hs)
  ELSE IF ~verifySignature(msg)
       THEN [Dropped(hs) EXCEPT !.rl = RateCharged(msg, "invalidMessages")]
  ELSE IF ~rpCheckResult(seenNonces, msg.nonce, msg.ts, now)
       THEN [Dropped(hs) EXCEPT !.rl = RateCharged(msg, "invalidMessages")]
  ELSE IF msg.type = "claim" /\ msg.token # NoToken
       THEN HandleClaim(msg, hs, rpCheckState(seenNonces, msg.nonce, msg.ts, now))
  ELSE IF msg.type = "inject" /\ msg.payload # NoPayload /\ msg.session # ""
       THEN HandleInject(msg, hs, rpCheckState(seenNonces, msg.nonce, msg.ts, now), c, handlerOk)
  ELSE [Dropped(hs) EXCEPT !.seen = rpCheckState(seenNonces, msg.nonce, msg.ts, now)]


\* ------------------------------------------------------------------------
\* The calling side: claimToken, sendP2PInject and performHandshake
\* ------------------------------------------------------------------------
Conns == 1..MaxConns
MaxCalls == MaxConns

NoCall ==
  [kind |-> "none", token |-> NoToken, session |-> "", peerEnc |-> NoEnc,
   resolved |-> FALSE, timer |-> FALSE, result |-> "none", by |-> "none", sent |-> {}]

\* st: "free" (no socket yet), "hs" (performHandshake waits), "req" (the
\* request is written, the response handler reads), "closed";
\* hs: handshakeComplete of the listener's handleConnection for this socket
FreeConn == [st |-> "free", server |-> "", toResp |-> <<>>, toInit |-> <<>>, hs |-> FALSE]

NoHandled == [msg |-> NoFrame, reply |-> NoFrame]

\* findPeer: by id or public key, else by a key in some peer's history; 0 if none
findPeer(ps, idOrName) ==
  LET direct == FirstIndex({i \in 1..Len(ps) : ps[i].id = idOrName \/ ps[i].publicKey = idOrName})
  IN IF direct # 0 THEN direct
     ELSE FirstIndex({i \in 1..Len(ps) :
                        \E j \in 1..Len(ps[i].keyHistory) : ps[i].keyHistory[j].publicKey = idOrName})

HelloFrame(key, callNo) ==
  Signed([NoFrame EXCEPT !.v = PROTOCOL_VERSION, !.type = "hello",
                         !.versions = helloVersions,
                         !.ephemeralPub = EphOf("i", callNo)], key)

ClaimFrame(key, version, token, nonce, t) ==
  Signed([NoFrame EXCEPT !.v = version, !.type = "claim", !.encryptPub = EncOf(key),
                         !.token = token, !.nonce = nonce, !.ts = t], key)

\* variant: the inject that uses the ephemeral keys whenever the peer sent one
InjectFrame_AnyVersion(key, version, peerEphemeralPub, peerEnc, session, callNo, nonce, t) ==
  LET useEphemeral == peerEphemeralPub # ""
  IN Signed([NoFrame EXCEPT
               !.v = version, !.type = "inject", !.encryptPub = EncOf(key),
               !.ephemeralPub = IF useEphemeral THEN EphOf("i", callNo) ELSE "",
               !.session = session,
               !.payload = IF useEphemeral
                           THEN [mode |-> "ephemeral", key |-> peerEphemeralPub, senderEnc |-> ""]
                           ELSE [mode |-> "static", key |-> peerEnc, senderEnc |-> EncOf(key)],
               !.nonce = nonce, !.ts = t], key)

InjectFrame(key, version, peerEphemeralPub, peerEnc, session, callNo, nonce, t) ==
  LET useEphemeral == version >= 2 /\ peerEphemeralPub # ""
  IN Signed([NoFrame EXCEPT
               !.v = version, !.type = "inject", !.encryptPub = EncOf(key),
               !.ephemeralPub = IF useEphemeral THEN EphOf("i", callNo) ELSE "",
               !.session = session,
               !.payload = IF useEphemeral
                           THEN [mode |-> "ephemeral", key |-> peerEphemeralPub, senderEnc |-> ""]
                           ELSE [mode |-> "static", key |-> peerEnc, senderEnc |-> EncOf(key)],
               !.nonce = nonce, !.ts = t], key)

\* the typed request the connection handler writes after the handshake
RequestFrame(c, version, peerEphemeralPub) ==
  IF c.kind = "claim" THEN ClaimFrame(me, version, c.token, nextNonce, now)
  ELSE InjectFrame(me, version, peerEphemeralPub, c.peerEnc, c.session, calls, nextNonce, now)

\* resolve(...) of the call's promise: only the first resolution counts
Resolve(c, result, by) ==
  IF c.result = "pending" THEN [c EXCEPT !.result = result, !.by = by] ELSE c

\* cleanup(): resolved = true and swarm.destroy() ends the call's sockets,
\* the lines neither side has read yet are discarded with them
Cleaned(c) == [c EXCEPT !.resolved = TRUE]
Destroyed(cs) ==
  [i \in Conns |-> IF cs[i].st \in {"hs", "req"} THEN [FreeConn EXCEPT !.st = "closed"]
                   ELSE cs[i]]

\* the exit code the response handler resolves with
ResponseCode(kind, response) ==
  IF response.type = "ack" THEN "OK"
  ELSE IF response.type = "garbage" THEN "Invalid"
  ELSE IF kind = "inject" /\ response.reason = "rate limited" THEN "RateLimited"
  ELSE "Rejected"

\* the exit code of the catch block around performHandshake
HandshakeFailCode(kind, messageHasVersion) ==
  IF kind = "inject" /\ messageHasVersion THEN "VersionMismatch" ELSE "Offline"

\* ------------------------------------------------------------------------
\* Initial values of the stores and gates
\* ------------------------------------------------------------------------
\* the store files: JSON.stringify writes the records in order and the
\* closing bracket last; a file without it does not parse
FileNames == {"access", "peers"}
FileOf(records) == [items |-> records, closed |-> TRUE]
EmptyFile == [items |-> <<>>, closed |-> FALSE]
NoSave == [file |-> "none", old |-> <<>>, new |-> <<>>]

\* the files hold the stores and no save is in progress
FilesSaved ==
  /\ disk = [f \in FileNames |-> FileOf(IF f = "access" THEN grants ELSE peers)]
  /\ saving = NoSave
  /\ crashed = FALSE

\* no onInject call is in progress on any connection
NoPending == [msg |-> NoFrame, reply |-> NoFrame]
NoAwait == awaiting = [c \in Conns |-> NoPending]

TrustStoreInit ==
  /\ grants = <<>>
  /\ peers = <<>>
  /\ rotLog = {}
  /\ ops = 0
  /\ FilesSaved
  /\ InviteStoreInit
  /\ NoAwait

\* no outbound call has been made and nothing is connected
P2PStart(key) ==
  /\ me = key
  /\ helloVersions = {PROTOCOL_VERSION, MIN_PROTOCOL_VERSION}
  /\ iPeers = <<>>
  /\ call = NoCall
  /\ calls = 0
  /\ conns = [c \in Conns |-> FreeConn]
  /\ nextNonce = 1
  /\ handled = NoHandled
  /\ consumed = {}
  /\ outsider = FALSE
  /\ onInjectLog = <<>>

P2PIdle == P2PStart("B")

\* the limiter after earlier requests were charged at time 0
RateInitCharged(lim, charged) ==
  /\ limits = lim
  /\ rl = [k \in RateKeys \X LimitClasses |->
             IF k \in DOMAIN charged THEN [RlFresh EXCEPT !.requests = charged[k]] ELSE RlFresh]
  /\ rlRet = [peerKey |-> "none", limitType |-> "none", ok |-> TRUE, call |-> 0]
  /\ rlBlocked = [k \in RateKeys \X LimitClasses |-> Undef]
  /\ rlCalls = 0
  /\ rlTrue = [k \in RateKeys \X LimitClasses |-> IF k \in DOMAIN charged THEN charged[k] ELSE <<>>]

RateInit(lim) ==
  /\ limits = lim
  /\ rl = [k \in RateKeys \X LimitClasses |-> RlFresh]
  /\ rlRet = [peerKey |-> "none", limitType |-> "none", ok |-> TRUE, call |-> 0]
  /\ rlBlocked = [k \in RateKeys \X LimitClasses |-> Undef]
  /\ rlCalls = 0
  /\ rlTrue = [k \in RateKeys \X LimitClasses |-> <<>>]

ReplayInit ==
  /\ seenNonces = [n \in Nonces |-> Undef]
  /\ rpRet = [nonce |-> 0, ts |-> 0, ok |-> TRUE, call |-> 0]
  /\ rpAccepted = {}
  /\ rpCalls = 0

\* time passes
Tick ==
  /\ now < MaxTime
  /\ now' = now + 1
  /\ UNCHANGED <<trustVars, rateVars, replayVars, p2pVars, fileVars, inviteVars, awaitVars>>

\* ---- operations of the trust store ----

GrantAccess(peerKey, sessions, caps, encryptPub) ==
  /\ ops < MaxOps
  /\ \/ \E i \in 1..Len(grants) : grants[i].peerKey = peerKey /\ ~grants[i].revoked
     \/ Len(grants) < MaxGrants
  /\ grants' = grantAccessOn(grants, peerKey, sessions, caps, encryptPub, now)
  /\ ops' = ops + 1
  /\ UNCHANGED <<now, awaitVars, inviteVars, fileVars, peers, rotLog, rateVars, replayVars, p2pVars>>

\* revokePeer and updateAccessGrant throw, changing nothing, when no active grant matches
RevokePeer(idOrName) ==
  /\ ops < MaxOps
  /\ \E i \in 1..Len(grants) : GrantMatches(grants[i], idOrName)
  /\ grants' = revokePeerOn(grants, idOrName)
  /\ ops' = ops + 1
  /\ UNCHANGED <<now, awaitVars, inviteVars, fileVars, peers, rotLog, rateVars, replayVars, p2pVars>>

UpdateAccessGrant(idOrName, sessions, caps) ==
  /\ ops < MaxOps
  /\ \E i \in 1..Len(grants) : GrantMatches(grants[i], idOrName)
  /\ grants' = updateAccessGrantOn(grants, idOrName, sessions, caps)
  /\ ops' = ops + 1
  /\ UNCHANGED <<now, awaitVars, inviteVars, fileVars, peers, rotLog, rateVars, replayVars, p2pVars>>

ProcessPeerKeyRotation(rotation) ==
  /\ ops < MaxOps
  /\ \A i \in 1..Len(grants) : Len(grants[i].keyHistory) < MaxHistory
  /\ \A i \in 1..Len(peers) : Len(peers[i].keyHistory) < MaxHistory
  /\ grants' = rotateGrants(grants, rotation)
  /\ peers' = rotatePeers(peers, rotation)
  /\ rotLog' = IF rotationAccepted(grants, peers, rotation) /\ RotGrantIdx(grants, rotation) # 0
               THEN rotLog \cup {[grant |-> RotGrantIdx(grants, rotation),
                                  oldSignPub |-> rotation.oldSignPub,
                                  validUntil |-> rotation.effectiveAt + rotation.gracePeriodMs]}
               ELSE rotLog
  /\ ops' = ops + 1
  /\ UNCHANGED <<now, awaitVars, inviteVars, fileVars, rateVars, replayVars, p2pVars>>

CleanupExpiredKeyHistory ==
  /\ ops < MaxOps
  /\ grants' = cleanupOn(grants, now)
  /\ peers' = cleanupOn(peers, now)
  /\ ops' = ops + 1
  /\ UNCHANGED <<now, awaitVars, inviteVars, fileVars, rotLog, rateVars, replayVars, p2pVars>>

TrustInit ==
  /\ now = 0
  /\ P2PIdle
  /\ TrustStoreInit
  /\ RateInit(DefaultLimits)
  /\ ReplayInit

TrustNext ==
  \/ Tick
  \/ \E k \in TrustKeys, ss \in SessionPatterns, cs \in CapSets : GrantAccess(k, ss, cs, EncOf(k))
  \/ \E n \in GrantNames : RevokePeer(n)
  \/ \E n \in GrantNames, cs \in {{}, {"read"}} : UpdateAccessGrant(n, {"prod"}, cs)
  \/ \E r \in Rotations : ProcessPeerKeyRotation(r)
  \/ CleanupExpiredKeyHistory

SpecTrust == TrustInit /\ [][TrustNext]_vars

\* ---- key rotation on a store that holds a grant and a peer record ----

\* the peer B was granted access and was added as a peer at time 0
RotateInit ==
  /\ now = 0
  /\ P2PIdle
  /\ grants = grantAccessOn(<<>>, "B", {"dev"}, {"inject"}, EncOf("B"), 0)
  /\ peers = addPeerOn(<<>>, "B", {"dev"}, {"inject"}, EncOf("B"), 0)
  /\ rotLog = {}
  /\ ops = 0
  /\ FilesSaved
  /\ InviteStoreInit
  /\ NoAwait
  /\ RateInit(DefaultLimits)
  /\ ReplayInit

RotateNext ==
  \/ Tick
  \/ \E n \in GrantNames : RevokePeer(n)
  \/ \E r \in Rotations : ProcessPeerKeyRotation(r)
  \/ CleanupExpiredKeyHistory

SpecRotate == RotateInit /\ [][RotateNext]_vars

\* ---- revoking a grant while other grants are made and keys rotate ----

RevokeNext ==
  \/ Tick
  \/ \E k \in TrustKeys : GrantAccess(k, {"dev"}, {"inject"}, EncOf(k))
  \/ \E n \in GrantNames : RevokePeer(n)
  \/ \E r \in Rotations : ProcessPeerKeyRotation(r)
  \/ CleanupExpiredKeyHistory

SpecRevoke == RotateInit /\ [][RevokeNext]_vars

TrustTypeOK ==
  /\ now \in Times
  /\ Len(grants) <= MaxGrants
  /\ Len(peers) <= MaxPeers

\* ---- saving a store file ----

\* saveAccessGrants / savePeers: writeFileSync opens the store file itself
\* for writing, which truncates it
SaveOpen(file, new) ==
  /\ ~crashed
  /\ saving = NoSave
  /\ ops < MaxOps
  /\ Len(new) <= MaxGrants
  /\ saving' = [file |-> file, old |-> disk[file].items, new |-> new]
  /\ disk' = [disk EXCEPT ![file] = EmptyFile]
  /\ ops' = ops + 1
  /\ UNCHANGED <<now, awaitVars, inviteVars, grants, peers, rotLog, crashed, rateVars, replayVars, p2pVars>>

\* writeFileSync writes the next part of the text
SaveWrite ==
  /\ ~crashed
  /\ saving # NoSave
  /\ Len(disk[saving.file].items) < Len(saving.new)
  /\ disk' = [disk EXCEPT ![saving.file].items =
                              Append(@, saving.new[Len(disk[saving.file].items) + 1])]
  /\ UNCHANGED <<now, awaitVars, inviteVars, trustVars, saving, crashed, rateVars, replayVars, p2pVars>>

\* writeFileSync writes the end of the text and returns; the store now
\* reads as the new contents
SaveDone ==
  /\ ~crashed
  /\ saving # NoSave
  /\ disk[saving.file].items = saving.new
  /\ disk' = [disk EXCEPT ![saving.file] = FileOf(saving.new)]
  /\ grants' = IF saving.file = "access" THEN saving.new ELSE grants
  /\ peers' = IF saving.file = "peers" THEN saving.new ELSE peers
  /\ saving' = NoSave
  /\ UNCHANGED <<now, awaitVars, inviteVars, rotLog, ops, crashed, rateVars, replayVars, p2pVars>>

\* the process is killed or the machine loses power
Crash ==
  /\ ~crashed
  /\ crashed' = TRUE
  /\ UNCHANGED <<now, awaitVars, inviteVars, trustVars, disk, saving, rateVars, replayVars, p2pVars>>

SaveNext ==
  \/ Tick
  \/ \E k \in TrustKeys, ss \in SessionPatterns :
       SaveOpen("access", grantAccessOn(grants, k, ss, {"inject"}, EncOf(k), now))
  \/ \E k \in TrustKeys, ss \in SessionPatterns :
       SaveOpen("peers", addPeerOn(peers, k, ss, {"inject"}, EncOf(k), now))
  \/ SaveWrite
  \/ SaveDone
  \/ Crash

SpecSave == TrustInit /\ [][SaveNext]_vars

\* ---- operations of the invite store ----

RecordInvite(token) ==
  /\ ops < MaxOps
  /\ invites' = recordInviteOn(invites, token, now)
  /\ invRet' = [op |-> "record", token |-> token, by |-> "",
                found |-> InviteIdx(invites, token) # 0, claimed |-> FALSE]
  /\ ops' = ops + 1
  /\ UNCHANGED <<now, awaitVars, grants, peers, rotLog, rateVars, replayVars, p2pVars, fileVars>>

MarkInviteClaimed(token, claimedBy) ==
  /\ ops < MaxOps
  /\ invites' = markInviteClaimedOn(invites, token, claimedBy, now)
  /\ invRet' = [op |-> "mark", token |-> token, by |-> claimedBy,
                found |-> InviteIdx(invites, token) # 0,
                claimed |-> /\ InviteIdx(invites, token) # 0
                            /\ Truthy(invites[InviteIdx(invites, token)].claimedAt)]
  /\ ops' = ops + 1
  /\ UNCHANGED <<now, awaitVars, grants, peers, rotLog, rateVars, replayVars, p2pVars, fileVars>>

RemoveInvite(token) ==
  /\ ops < MaxOps
  /\ invites' = removeInviteOn(invites, token)
  /\ invRet' = [op |-> "remove", token |-> token, by |-> "",
                found |-> InviteIdx(invites, token) # 0, claimed |-> FALSE]
  /\ ops' = ops + 1
  /\ UNCHANGED <<now, awaitVars, grants, peers, rotLog, rateVars, replayVars, p2pVars, fileVars>>

\* Date.now() is positive
InviteInit ==
  /\ now = 1
  /\ P2PIdle
  /\ TrustStoreInit
  /\ RateInit(DefaultLimits)
  /\ ReplayInit

InviteNext ==
  \/ Tick
  \/ \E token \in Tokens : RecordInvite(token)
  \/ \E token \in Tokens, claimedBy \in TrustKeys : MarkInviteClaimed(token, claimedBy)
  \/ \E token \in Tokens : RemoveInvite(token)

SpecInvite == InviteInit /\ [][InviteNext]_vars

\* ---- operations of the rate limiter ----

RateLimiterCheck(peerKey, limitType) ==
  LET st == rl[<<peerKey, limitType>>]
      ok == rlCheckResult(st, limits[limitType], now)
      st2 == rlCheckState(st, limits[limitType], now)
  IN /\ rlCalls < MaxChecks
     /\ rl' = [rl EXCEPT ![<<peerKey, limitType>>] = st2]
     /\ rlRet' = [peerKey |-> peerKey, limitType |-> limitType, ok |-> ok, call |-> rlCalls + 1]
     /\ rlBlocked' = IF ok THEN rlBlocked
                     ELSE [rlBlocked EXCEPT ![<<peerKey, limitType>>] = st2.blockedUntil]
     /\ rlCalls' = rlCalls + 1
     /\ rlTrue' = IF ok THEN [rlTrue EXCEPT ![<<peerKey, limitType>>] = Append(@, now)] ELSE rlTrue
     /\ UNCHANGED <<now, awaitVars, inviteVars, fileVars, limits, trustVars, replayVars, p2pVars>>

RateSpecInit ==
  /\ now = 0
  /\ P2PIdle
  /\ TrustStoreInit
  /\ ReplayInit
  /\ \E config \in RateConfigs : RateInit([c \in LimitClasses |-> config])

RateNext ==
  \/ Tick
  \/ \E p \in {"B"}, c \in {"claims", "injects"} : RateLimiterCheck(p, c)

SpecRate == RateSpecInit /\ [][RateNext]_vars

\* ---- operations of the replay protector ----

ReplayCheck(nonce, timestamp) ==
  /\ rpCalls < MaxReplayCalls
  /\ seenNonces' = rpCheckState(seenNonces, nonce, timestamp, now)
  /\ rpRet' = [nonce |-> nonce, ts |-> timestamp, call |-> rpCalls + 1,
              ok |-> rpCheckResult(seenNonces, nonce, timestamp, now)]
  /\ rpAccepted' = IF rpCheckResult(seenNonces, nonce, timestamp, now)
                   THEN rpAccepted \cup {<<nonce, now>>}
                   ELSE rpAccepted
  /\ rpCalls' = rpCalls + 1
  /\ UNCHANGED <<now, awaitVars, inviteVars, fileVars, trustVars, rateVars, p2pVars>>

ReplayCleanup ==
  /\ rpCalls < MaxReplayCalls
  /\ seenNonces' = rpCleanup(seenNonces, now)
  /\ rpCalls' = rpCalls + 1
  /\ UNCHANGED <<now, awaitVars, inviteVars, fileVars, rpRet, rpAccepted, trustVars, rateVars, p2pVars>>

ReplaySpecInit ==
  /\ now = 0
  /\ P2PIdle
  /\ TrustStoreInit
  /\ RateInit(DefaultLimits)
  /\ ReplayInit

ReplayNext ==
  \/ Tick
  \/ \E n \in Nonces, ts \in 0..(MaxTime + MaxClockSkewMs + 1) : ReplayCheck(n, ts)
  \/ ReplayCleanup

SpecReplay == ReplaySpecInit /\ [][ReplayNext]_vars


\* ------------------------------------------------------------------------
\* Steps of the protocol engine
\* ------------------------------------------------------------------------
LowestFree == FirstIndex({c \in Conns : conns[c].st = "free"})

\* claimToken up to swarm.join: an unparsable token returns at once
StartClaim(token) ==
  /\ calls < MaxCalls
  /\ call.result # "pending"
  /\ calls' = calls + 1
  /\ call' = IF parseInviteTokenOk(token, now)
             THEN [NoCall EXCEPT !.kind = "claim", !.token = token, !.timer = TRUE,
                                 !.result = "pending"]
             ELSE [NoCall EXCEPT !.kind = "claim", !.token = token, !.result = "Invalid",
                                 !.by = "parse"]
  /\ UNCHANGED <<now, awaitVars, inviteVars, fileVars, trustVars, rateVars, replayVars, me, helloVersions, iPeers, conns, nextNonce,
                 handled, consumed, outsider, onInjectLog>>

\* variant: sendP2PInject without the local test of peer.sessions
StartInject_NoSessionCheck(peerIdOrName, session) ==
  /\ calls < MaxCalls
  /\ call.result # "pending"
  /\ calls' = calls + 1
  /\ call' =
       LET i == findPeer(iPeers, peerIdOrName)
           started == [NoCall EXCEPT !.kind = "inject", !.session = session]
       IN IF i = 0 THEN [started EXCEPT !.result = "Invalid", !.by = "peer"]
          ELSE IF iPeers[i].encryptPub = NoEnc
               THEN [started EXCEPT !.result = "Invalid", !.by = "key"]
          ELSE [started EXCEPT !.peerEnc = iPeers[i].encryptPub, !.timer = TRUE,
                               !.result = "pending"]
  /\ UNCHANGED <<now, awaitVars, inviteVars, fileVars, trustVars, rateVars, replayVars, me, helloVersions, iPeers, conns, nextNonce,
                 handled, consumed, outsider, onInjectLog>>

\* sendP2PInject up to swarm.join
StartInject(peerIdOrName, session) ==
  /\ calls < MaxCalls
  /\ call.result # "pending"
  /\ calls' = calls + 1
  /\ call' =
       LET i == findPeer(iPeers, peerIdOrName)
           started == [NoCall EXCEPT !.kind = "inject", !.session = session]
       IN IF i = 0 THEN [started EXCEPT !.result = "Invalid", !.by = "peer"]
          ELSE IF "*" \notin iPeers[i].sessions /\ session \notin iPeers[i].sessions
               THEN [started EXCEPT !.result = "Rejected", !.by = "session"]
          ELSE IF iPeers[i].encryptPub = NoEnc
               THEN [started EXCEPT !.result = "Invalid", !.by = "key"]
          ELSE [started EXCEPT !.peerEnc = iPeers[i].encryptPub, !.timer = TRUE,
                               !.result = "pending"]
  /\ UNCHANGED <<now, awaitVars, inviteVars, fileVars, trustVars, rateVars, replayVars, me, helloVersions, iPeers, conns, nextNonce,
                 handled, consumed, outsider, onInjectLog>>

\* swarm.on("connection"): performHandshake writes hello and waits
\* (an event that arrives when resolved is set returns at once)
ConnectionEvent(server) ==
  /\ call.result = "pending"
  /\ ~call.resolved
  /\ LowestFree # 0
  /\ conns' = [conns EXCEPT ![LowestFree] =
                 [FreeConn EXCEPT !.st = "hs", !.server = server,
                                  !.toResp = IF server = Self THEN <<HelloFrame(me, calls)>>
                                             ELSE <<>>]]
  /\ UNCHANGED <<now, awaitVars, inviteVars, fileVars, trustVars, rateVars, replayVars, me, helloVersions, iPeers, call, calls, nextNonce,
                 handled, consumed, outsider, onInjectLog>>

\* the rest of the connection handler once performHandshake resolved:
\* clearTimeout, write the request, install the response handler
RequestWritten(c, version, peerEphemeralPub, extra) ==
  /\ nextNonce <= MaxNonces
  /\ call' = [call EXCEPT !.timer = FALSE, !.sent = @ \cup {nextNonce}]
  /\ conns' = [conns EXCEPT
                 ![c].st = "req",
                 ![c].toInit = Tail(@),
                 ![c].toResp = IF conns[c].server = Self
                               THEN @ \o extra \o <<RequestFrame(call, version, peerEphemeralPub)>>
                               ELSE @]
  /\ nextNonce' = nextNonce + 1

\* the catch block around performHandshake
HandshakeFailed(messageHasVersion, by) ==
  /\ call' = Resolve(Cleaned([call EXCEPT !.timer = FALSE]),
                     HandshakeFailCode(call.kind, messageHasVersion), by)
  /\ conns' = Destroyed(conns)
  /\ UNCHANGED nextNonce

\* onData of performHandshake for one received line
HandshakeData(c) ==
  /\ conns[c].st = "hs"
  /\ conns[c].toInit # <<>>
  /\ LET msg == Head(conns[c].toInit)
         offered == IF msg.versions = NoVersions THEN {PROTOCOL_VERSION} ELSE msg.versions
         commonVersions == {v \in offered : v >= MIN_PROTOCOL_VERSION /\ v <= PROTOCOL_VERSION}
     IN IF msg.type = "hello-ack" /\ msg.version # Undef
        THEN IF msg.version < MIN_PROTOCOL_VERSION
             THEN HandshakeFailed(FALSE, "failure")
             ELSE RequestWritten(c, msg.version, msg.ephemeralPub, <<>>)
        ELSE IF msg.type = "hello"
        THEN IF commonVersions = {}
             THEN HandshakeFailed(TRUE, "failure")
             ELSE RequestWritten(c, Max(commonVersions), msg.ephemeralPub,
                                 <<Signed([NoFrame EXCEPT !.v = PROTOCOL_VERSION,
                                                          !.type = "hello-ack",
                                                          !.version = Max(commonVersions),
                                                          !.ephemeralPub = EphOf("i", calls)], me)>>)
        ELSE /\ conns' = [conns EXCEPT ![c].toInit = Tail(@)]
             /\ UNCHANGED <<call, nextNonce>>
  /\ UNCHANGED <<now, awaitVars, inviteVars, fileVars, trustVars, rateVars, replayVars, me, helloVersions, iPeers, calls, handled, consumed, outsider, onInjectLog>>

\* the handshake timer or the socket's error event ends performHandshake
HandshakeAbort(c) ==
  /\ conns[c].st = "hs"
  /\ HandshakeFailed(FALSE, "failure")
  /\ UNCHANGED <<now, awaitVars, inviteVars, fileVars, trustVars, rateVars, replayVars, me, helloVersions, iPeers, calls, handled, consumed, outsider, onInjectLog>>

\* the response handler: it parses the first line of its buffer, acts on an
\* ack, a reject or an unparsable line, and leaves any other line in place
ResponseData(c) ==
  /\ conns[c].st = "req"
  /\ conns[c].toInit # <<>>
  /\ Head(conns[c].toInit).type \in {"ack", "reject", "garbage"}
  /\ LET response == Head(conns[c].toInit)
     IN /\ iPeers' = IF call.kind = "claim" /\ response.type = "ack"
                     THEN addPeerOn(iPeers, call.token.iss, call.token.ses, call.token.cap,
                                    response.encryptPub, now)
                     ELSE iPeers
        /\ call' = Resolve(Cleaned(call), ResponseCode(call.kind, response), response.type)
  /\ conns' = Destroyed(conns)
  /\ UNCHANGED <<now, awaitVars, inviteVars, fileVars, trustVars, rateVars, replayVars, me, helloVersions, calls, nextNonce, handled, consumed, outsider, onInjectLog>>

\* the call's timer fires
RequestTimeout ==
  /\ call.timer
  /\ ~call.resolved
  /\ call' = Resolve(Cleaned([call EXCEPT !.timer = FALSE]), "Offline", "failure")
  /\ conns' = Destroyed(conns)
  /\ UNCHANGED <<now, awaitVars, inviteVars, fileVars, trustVars, rateVars, replayVars, me, helloVersions, iPeers, calls, nextNonce,
                 handled, consumed, outsider, onInjectLog>>

\* the error event of a socket whose request is written
SocketError(c) ==
  /\ conns[c].st = "req"
  /\ ~call.resolved
  /\ call' = Resolve(Cleaned(call), "Offline", "failure")
  /\ conns' = Destroyed(conns)
  /\ UNCHANGED <<now, awaitVars, inviteVars, fileVars, trustVars, rateVars, replayVars, me, helloVersions, iPeers, calls, nextNonce,
                 handled, consumed, outsider, onInjectLog>>

\* what the listener's state becomes when the frame was handled
Listened(msg, r) ==
  /\ grants' = r.grants
  /\ peers' = r.peers
  /\ rl' = r.rl
  /\ seenNonces' = r.seen
  /\ handled' = IF msg.type \in {"hello", "hello-ack", "garbage"} THEN handled
                ELSE [msg |-> msg, reply |-> r.reply]
  /\ consumed' = IF msg.type = "claim" /\ r.reply.type = "ack"
                 THEN consumed \cup {msg.token} ELSE consumed
  /\ onInjectLog' = IF r.onInject
                    THEN Append(onInjectLog, [session |-> msg.session, from |-> msg.from,
                                              nonce |-> msg.nonce])
                    ELSE onInjectLog
  /\ UNCHANGED <<now, inviteVars, fileVars, rotLog, ops, limits, rlRet, rlBlocked, rlCalls, rlTrue, rpRet, rpAccepted,
                 rpCalls, me, helloVersions, iPeers, call, calls>>

\* the data handler of handleConnection takes the next line of a call's socket
ListenerData(c, handlerOk) ==
  /\ conns[c].server = Self
  /\ conns[c].toResp # <<>>
  /\ LET msg == Head(conns[c].toResp)
         r == HandleMsg(msg, conns[c].hs, c, handlerOk)
     IN /\ Listened(msg, r)
        /\ conns' = [conns EXCEPT
                       ![c].toResp = Tail(@),
                       ![c].hs = r.hs,
                       ![c].toInit = IF r.reply # NoFrame /\ conns[c].st # "closed"
                                     THEN Append(@, r.reply) ELSE @]
  /\ UNCHANGED <<nextNonce, outsider, awaitVars>>

\* the listener's operator runs "wopr revoke"
ListenerRevoke(idOrName) ==
  /\ \E i \in 1..Len(grants) : GrantMatches(grants[i], idOrName)
  /\ grants' = revokePeerOn(grants, idOrName)
  /\ UNCHANGED <<now, awaitVars, inviteVars, fileVars, peers, rotLog, ops, rateVars, replayVars, p2pVars>>

\* a party that holds key C connects to the listener and writes one typed
\* frame: a claim it signs itself, under its own name or another's
OutsiderClaims ==
  {Signed([NoFrame EXCEPT !.v = PROTOCOL_VERSION, !.type = "claim", !.encryptPub = EncOf("C"),
                          !.token = tok, !.nonce = nextNonce, !.ts = now], "C") :
     tok \in Tokens}
  \cup {[Signed([NoFrame EXCEPT !.v = PROTOCOL_VERSION, !.type = "claim",
                                !.encryptPub = EncOf("C"), !.token = Token(Self, Self),
                                !.nonce = nextNonce, !.ts = now], "B") EXCEPT !.sig = "C"]}

OutsiderFrame(msg) ==
  /\ ~outsider
  /\ outsider' = TRUE
  /\ nextNonce <= MaxNonces
  /\ nextNonce' = nextNonce + 1
  /\ LET r == HandleMsg(msg, FALSE, 0, TRUE)
     IN Listened(msg, r) /\ UNCHANGED <<conns, awaitVars>>

\* or it writes again a frame it saw the listener answer
ReplayedFrame ==
  /\ ~outsider
  /\ outsider' = TRUE
  /\ handled.reply # NoFrame
  /\ LET r == HandleMsg(handled.msg, FALSE, 0, TRUE)
     IN Listened(handled.msg, r) /\ UNCHANGED <<conns, nextNonce, awaitVars>>

\* a party that captured the last typed frame the listener handled writes
\* it again on a connection of its own, as often as it likes
ResentFrame ==
  /\ handled.msg # NoFrame
  /\ LET r == HandleMsg(handled.msg, FALSE, 0, TRUE)
     IN Listened(handled.msg, r) /\ UNCHANGED <<conns, nextNonce, outsider, awaitVars>>

\* the other server on the topic writes a line to a socket it accepted
ImpostorFrames ==
  {Signed([NoFrame EXCEPT !.v = PROTOCOL_VERSION, !.type = "hello-ack",
                          !.version = PROTOCOL_VERSION], Impostor),
   Signed([NoFrame EXCEPT !.v = PROTOCOL_VERSION, !.type = "ack",
                          !.encryptPub = EncOf(Impostor)], Impostor),
   Signed([NoFrame EXCEPT !.v = PROTOCOL_VERSION, !.type = "reject",
                          !.reason = "rate limited"], Impostor),
   Signed([NoFrame EXCEPT !.v = PROTOCOL_VERSION, !.type = "hello",
                          !.versions = {PROTOCOL_VERSION}], Impostor),
   [NoFrame EXCEPT !.type = "garbage"]}

ImpostorWrite(c, frame) ==
  /\ conns[c].server = Impostor
  /\ conns[c].st \in {"hs", "req"}
  /\ conns[c].toInit = <<>>
  /\ conns' = [conns EXCEPT ![c].toInit = <<frame>>]
  /\ UNCHANGED <<now, awaitVars, inviteVars, fileVars, trustVars, rateVars, replayVars, me, helloVersions, iPeers, call, calls, nextNonce,
                 handled, consumed, outsider, onInjectLog>>

\* ---- claiming an invite ----

\* the swarm connects a call to one server at a time
NoLiveSocket == \A c \in Conns : conns[c].st \notin {"hs", "req"}

SoleConnection(server) ==
  /\ NoLiveSocket
  /\ ConnectionEvent(server)

\* C made claims at time 0 already: one more is within the limit
PriorClaims == DefaultLimits["claims"].maxRequests - 1

ClaimInit ==
  /\ now = 0
  /\ \E key \in Callers : P2PStart(key)
  /\ TrustStoreInit
  /\ ReplayInit
  /\ RateInitCharged(DefaultLimits, [k \in {<<"C", "claims">>} |-> [i \in 1..PriorClaims |-> 0]])

ClaimNext ==
  \/ Tick
  \/ \E tok \in {t \in Tokens : t.iss = Self} : StartClaim(tok)
  \/ SoleConnection(Self)
  \/ \E c \in Conns : HandshakeData(c)
  \/ \E c \in Conns : HandshakeAbort(c)
  \/ \E c \in Conns : ResponseData(c)
  \/ \E c \in Conns : SocketError(c)
  \/ RequestTimeout
  \/ \E c \in Conns : ListenerData(c, TRUE)
  \/ \E msg \in OutsiderClaims : OutsiderFrame(msg)
  \/ ReplayedFrame
  \/ \E key \in Callers : ListenerRevoke(key)

SpecClaim == ClaimInit /\ [][ClaimNext]_vars

\* ---- claiming an invite when another server answers on the topic ----

TopicInit ==
  /\ now = 0
  /\ P2PStart("B")
  /\ TrustStoreInit
  /\ ReplayInit
  /\ RateInit(DefaultLimits)

TopicNext ==
  \/ Tick
  \/ StartClaim(Token(Self, Self))
  \/ \E server \in {Self, Impostor} : SoleConnection(server)
  \/ \E c \in Conns : HandshakeData(c)
  \/ \E c \in Conns : HandshakeAbort(c)
  \/ \E c \in Conns : ResponseData(c)
  \/ \E c \in Conns : SocketError(c)
  \/ RequestTimeout
  \/ \E c \in Conns : ListenerData(c, TRUE)
  \/ \E c \in Conns, frame \in ImpostorFrames : ImpostorWrite(c, frame)

SpecTopic == TopicInit /\ [][TopicNext]_vars

\* what the event loop guarantees: a timer that is set fires, and a data
\* event that is pending is delivered to its handler; the swarm, the other
\* server and the clock owe nothing
TopicFairness ==
  /\ WF_vars(RequestTimeout)
  /\ \A c \in Conns : /\ WF_vars(HandshakeData(c))
                       /\ WF_vars(HandshakeAbort(c))
                       /\ WF_vars(ResponseData(c))
                       /\ WF_vars(ListenerData(c, TRUE))

SpecTopicLive == TopicInit /\ [][TopicNext]_vars /\ TopicFairness

\* ---- claiming an invite and injecting while captured frames are written again ----

ResendNext ==
  \/ Tick
  \/ StartClaim(Token(Self, Self))
  \/ StartInject(shortKey(Self), "dev")
  \/ SoleConnection(Self)
  \/ \E c \in Conns : HandshakeData(c)
  \/ \E c \in Conns : HandshakeAbort(c)
  \/ \E c \in Conns : ResponseData(c)
  \/ \E c \in Conns : SocketError(c)
  \/ RequestTimeout
  \/ \E c \in Conns : ListenerData(c, TRUE)
  \/ ResentFrame

SpecResend == TopicInit /\ [][ResendNext]_vars

\* ---- injecting into a session ----

\* the stores after B claimed A's invite at time 0 with the first nonce;
\* "wopr inject" is a new process: no call yet, no socket
InjectStores ==
  /\ now = 0
  /\ me = "B"
  /\ iPeers = addPeerOn(<<>>, Self, {"dev"}, {"inject"}, EncOf(Self), 0)
  /\ call = NoCall
  /\ calls = 0
  /\ conns = [c \in Conns |-> FreeConn]
  /\ nextNonce = 2
  /\ handled = NoHandled
  /\ consumed = {Token(Self, Self)}
  /\ outsider = FALSE
  /\ onInjectLog = <<>>
  /\ grants = grantAccessOn(<<>>, "B", {"dev"}, {"inject"}, EncOf("B"), 0)
  /\ peers = <<>>
  /\ rotLog = {}
  /\ ops = 0
  /\ RateInitCharged(DefaultLimits, [k \in {<<"B", "claims">>} |-> <<0>>])
  /\ seenNonces = [n \in Nonces |-> IF n = 1 THEN 0 ELSE Undef]
  /\ rpRet = [nonce |-> 0, ts |-> 0, ok |-> TRUE, call |-> 0]
  /\ rpAccepted = {}
  /\ rpCalls = 0
  /\ FilesSaved
  /\ InviteStoreInit
  /\ NoAwait

InjectInit ==
  /\ InjectStores
  /\ helloVersions = {PROTOCOL_VERSION, MIN_PROTOCOL_VERSION}

InjectNext ==
  \/ Tick
  \/ \E name \in {shortKey(Self), "nobody"}, session \in Sessions : StartInject(name, session)
  \/ ConnectionEvent(Self)
  \/ \E c \in Conns : HandshakeData(c)
  \/ \E c \in Conns : HandshakeAbort(c)
  \/ \E c \in Conns : ResponseData(c)
  \/ \E c \in Conns : SocketError(c)
  \/ RequestTimeout
  \/ \E c \in Conns, handlerOk \in BOOLEAN : ListenerData(c, handlerOk)

SpecInject == InjectInit /\ [][InjectNext]_vars

\* ---- injecting from a build of another protocol generation ----

\* the version lists a caller's build can offer: this build's, an older
\* generation's and a newer generation's
HelloOffers ==
  {{PROTOCOL_VERSION, MIN_PROTOCOL_VERSION}, {MIN_PROTOCOL_VERSION - 1}, {PROTOCOL_VERSION + 1}}

VersionInit ==
  /\ InjectStores
  /\ helloVersions \in HelloOffers

SpecVersion == VersionInit /\ [][InjectNext]_vars

\* ---- injecting while the listener's handler takes its time ----

\* the next line of connection c is an inject that gets as far as onInject
ReachesHandler(c) ==
  /\ conns[c].server = Self
  /\ conns[c].toResp # <<>>
  /\ HandleMsg(Head(conns[c].toResp), conns[c].hs, c, TRUE).onInject

\* variant: the inject branch without the await: the reply is written when
\* onInject is called
ListenerBegin_NoAwait(c, handlerOk) ==
  /\ ReachesHandler(c)
  /\ awaiting[c] = NoPending
  /\ LET msg == Head(conns[c].toResp)
         r == HandleMsg(msg, conns[c].hs, c, handlerOk)
     IN /\ Listened(msg, r)
        /\ conns' = [conns EXCEPT ![c].toResp = Tail(@),
                                  ![c].toInit = IF conns[c].st # "closed"
                                                THEN Append(@, r.reply) ELSE @]
        /\ awaiting' = awaiting
  /\ UNCHANGED <<nextNonce, outsider>>

\* the data handler runs up to `await onInject(...)`: the checks are made and
\* charged, onInject is called, and the handler is suspended
ListenerBegin(c, handlerOk) ==
  /\ ReachesHandler(c)
  /\ awaiting[c] = NoPending
  /\ LET msg == Head(conns[c].toResp)
         r == HandleMsg(msg, conns[c].hs, c, handlerOk)
     IN /\ Listened(msg, [r EXCEPT !.reply = NoFrame])
        /\ conns' = [conns EXCEPT ![c].toResp = Tail(@)]
        /\ awaiting' = [awaiting EXCEPT ![c] = [msg |-> msg, reply |-> r.reply]]
  /\ UNCHANGED <<nextNonce, outsider>>

\* onInject returned or threw: the handler resumes and writes the ack or the
\* reject "inject failed"
ListenerFinish(c) ==
  /\ awaiting[c] # NoPending
  /\ conns' = [conns EXCEPT ![c].toInit = IF conns[c].st # "closed"
                                          THEN Append(@, awaiting[c].reply) ELSE @]
  /\ handled' = awaiting[c]
  /\ awaiting' = [awaiting EXCEPT ![c] = NoPending]
  /\ UNCHANGED <<now, inviteVars, fileVars, trustVars, rateVars, replayVars, me, helloVersions, iPeers, call, calls,
                 nextNonce, consumed, outsider, onInjectLog>>

\* any other line is handled in one step
ListenerRest(c) ==
  /\ ~ReachesHandler(c)
  /\ ListenerData(c, TRUE)

AwaitNext ==
  \/ Tick
  \/ StartInject(shortKey(Self), "dev")
  \/ SoleConnection(Self)
  \/ \E c \in Conns : HandshakeData(c)
  \/ \E c \in Conns : HandshakeAbort(c)
  \/ \E c \in Conns : ResponseData(c)
  \/ \E c \in Conns : SocketError(c)
  \/ RequestTimeout
  \/ \E c \in Conns : ListenerRest(c)
  \/ \E c \in Conns, handlerOk \in BOOLEAN : ListenerBegin(c, handlerOk)
  \/ \E c \in Conns : ListenerFinish(c)

SpecAwait == InjectInit /\ [][AwaitNext]_vars

\* ---- an inject whose cleanup awaits swarm.destroy() ----

\* the call's timer fires: cleanup() sets resolved and calls swarm.destroy(),
\* and the timer's callback waits for it before it resolves the promise
TimeoutCleanup ==
  /\ call.timer
  /\ ~call.resolved
  /\ call' = Cleaned([call EXCEPT !.timer = FALSE])
  /\ UNCHANGED <<now, awaitVars, inviteVars, fileVars, trustVars, rateVars, replayVars, me, helloVersions, iPeers, calls, conns, nextNonce,
                 handled, consumed, outsider, onInjectLog>>

\* swarm.destroy() has ended the call's sockets and the callback that
\* waited for it calls resolve
DestroyDone ==
  /\ call.resolved
  /\ call.result = "pending" \/ ~NoLiveSocket
  /\ call' = Resolve(call, "Offline", "failure")
  /\ conns' = Destroyed(conns)
  /\ UNCHANGED <<now, awaitVars, inviteVars, fileVars, trustVars, rateVars, replayVars, me, helloVersions, iPeers, calls, nextNonce,
                 handled, consumed, outsider, onInjectLog>>

\* the response handler while swarm.destroy() is under way: its cleanup()
\* finds resolved set and returns, and the handler resolves the promise
ResponseEarly(c) ==
  /\ call.resolved
  /\ call.result = "pending"
  /\ conns[c].st = "req"
  /\ conns[c].toInit # <<>>
  /\ Head(conns[c].toInit).type \in {"ack", "reject", "garbage"}
  /\ LET response == Head(conns[c].toInit)
     IN /\ iPeers' = IF call.kind = "claim" /\ response.type = "ack"
                     THEN addPeerOn(iPeers, call.token.iss, call.token.ses, call.token.cap,
                                    response.encryptPub, now)
                     ELSE iPeers
        /\ call' = Resolve(call, ResponseCode(call.kind, response), response.type)
  /\ UNCHANGED <<now, awaitVars, inviteVars, fileVars, trustVars, rateVars, replayVars, me, helloVersions, calls, conns, nextNonce, handled, consumed, outsider, onInjectLog>>

CleanupNext ==
  \/ NoLiveSocket /\ StartInject(shortKey(Self), "dev")
  \/ ConnectionEvent(Self)
  \/ \E c \in Conns : HandshakeData(c)
  \/ \E c \in Conns : HandshakeAbort(c)
  \/ \E c \in Conns : ResponseData(c)
  \/ \E c \in Conns : ResponseEarly(c)
  \/ \E c \in Conns : SocketError(c)
  \/ TimeoutCleanup
  \/ DestroyDone
  \/ \E c \in Conns : ListenerData(c, TRUE)

SpecCleanup == InjectInit /\ [][CleanupNext]_vars

\* ---- negotiating the protocol version ----

\* the version lists a hello can carry: this build's, one generation alone,
\* and lists that reach past the range the listener supports
NegotiateOffers ==
  {{PROTOCOL_VERSION, MIN_PROTOCOL_VERSION}, {MIN_PROTOCOL_VERSION}, {PROTOCOL_VERSION},
   {MIN_PROTOCOL_VERSION, PROTOCOL_VERSION + 1}, {MIN_PROTOCOL_VERSION - 1, PROTOCOL_VERSION}}

NegotiateInit ==
  /\ InjectStores
  /\ helloVersions \in NegotiateOffers

NegotiateNext ==
  \/ Tick
  \/ StartClaim(Token(Self, Self))
  \/ StartInject(shortKey(Self), "dev")
  \/ SoleConnection(Self)
  \/ \E c \in Conns : HandshakeData(c)
  \/ \E c \in Conns : HandshakeAbort(c)
  \/ \E c \in Conns : ResponseData(c)
  \/ \E c \in Conns : SocketError(c)
  \/ RequestTimeout
  \/ \E c \in Conns : ListenerData(c, TRUE)

SpecNegotiate == NegotiateInit /\ [][NegotiateNext]_vars

\* ---- a peer that writes frames with a client of its own ----

\* the fresh typed frames B writes
MaxBareFrames == 2

\* B opens a socket to the listener; nothing obliges it to write a hello first.
\* B writes one line at a time, having read what the listener wrote before.
BareConnect ==
  /\ \A c \in Conns : conns[c].st = "free"
  /\ conns' = [conns EXCEPT ![LowestFree] = [FreeConn EXCEPT !.st = "raw", !.server = Self]]
  /\ UNCHANGED <<now, awaitVars, inviteVars, fileVars, trustVars, rateVars, replayVars, me, helloVersions, iPeers, call, calls,
                 nextNonce, handled, consumed, outsider, onInjectLog>>

\* the rotation of B's key to C that B signed
BareRotation ==
  [oldSignPub |-> "B", newSignPub |-> "C", effectiveAt |-> now, gracePeriodMs |-> MaxGrace,
   sig |-> "B"]

\* a second invite the listener issued for B, for another session
SecondToken == [Token(Self, Self) EXCEPT !.ses = {"prod"}]

\* the frames B can sign at this moment for the socket c, and one frame that
\* bears another key's signature
BareFrames(c) ==
  {ClaimFrame("B", PROTOCOL_VERSION, Token(Self, Self), nextNonce, now),
   ClaimFrame("B", PROTOCOL_VERSION, SecondToken, nextNonce, now),
   [ClaimFrame("B", PROTOCOL_VERSION, Token(Self, Self), nextNonce, now) EXCEPT !.sig = "C"],
   Signed([NoFrame EXCEPT !.v = PROTOCOL_VERSION, !.type = "key-rotation",
                          !.keyRotation = BareRotation, !.nonce = nextNonce, !.ts = now], "B")}
  \cup {InjectFrame("B", PROTOCOL_VERSION, IF conns[c].hs THEN EphOf("r", c) ELSE "",
                    EncOf(Self), s, 0, nextNonce, now) : s \in Sessions}

\* B writes a hello on a socket that carried none, before any typed frame
BareHello(c) ==
  /\ conns[c].st = "raw"
  /\ handled = NoHandled
  /\ conns[c].toResp = <<>>
  /\ ~conns[c].hs
  /\ conns' = [conns EXCEPT ![c].toResp = <<HelloFrame("B", 0)>>, ![c].toInit = <<>>]
  /\ UNCHANGED <<now, awaitVars, inviteVars, fileVars, trustVars, rateVars, replayVars, me, helloVersions, iPeers, call, calls,
                 nextNonce, handled, consumed, outsider, onInjectLog>>

\* B writes a line that is not JSON, before any typed frame
BareGarbage(c) ==
  /\ conns[c].st = "raw"
  /\ handled = NoHandled
  /\ conns[c].toResp = <<>>
  /\ conns' = [conns EXCEPT ![c].toResp = <<[NoFrame EXCEPT !.type = "garbage"]>>,
                            ![c].toInit = <<>>]
  /\ UNCHANGED <<now, awaitVars, inviteVars, fileVars, trustVars, rateVars, replayVars, me, helloVersions, iPeers, call, calls,
                 nextNonce, handled, consumed, outsider, onInjectLog>>

\* B writes a typed frame with a fresh nonce
BareWrite(c, frame) ==
  /\ conns[c].st = "raw"
  /\ conns[c].toResp = <<>>
  /\ nextNonce <= MaxBareFrames
  /\ nextNonce' = nextNonce + 1
  /\ conns' = [conns EXCEPT ![c].toResp = <<frame>>, ![c].toInit = <<>>]
  /\ UNCHANGED <<now, awaitVars, inviteVars, fileVars, trustVars, rateVars, replayVars, me, helloVersions, iPeers, call, calls,
                 handled, consumed, outsider, onInjectLog>>

\* B writes again the typed frame the listener answered last
BareResend(c) ==
  /\ conns[c].st = "raw"
  /\ conns[c].toResp = <<>>
  /\ handled.reply # NoFrame
  /\ conns' = [conns EXCEPT ![c].toResp = <<handled.msg>>, ![c].toInit = <<>>]
  /\ UNCHANGED <<now, awaitVars, inviteVars, fileVars, trustVars, rateVars, replayVars, me, helloVersions, iPeers, call, calls,
                 nextNonce, handled, consumed, outsider, onInjectLog>>

BareNext ==
  \/ Tick
  \/ BareConnect
  \/ \E c \in Conns : BareHello(c)
  \/ \E c \in Conns : BareGarbage(c)
  \/ \E c \in Conns : \E frame \in BareFrames(c) : BareWrite(c, frame)
  \/ \E c \in Conns : BareResend(c)
  \/ \E c \in Conns : ListenerData(c, TRUE)

SpecBare == TopicInit /\ [][BareNext]_vars

\* ------------------------------------------------------------------------
\* Properties of the trust store
\* ------------------------------------------------------------------------
QuerySessions == Sessions \cup {"*"}

\* some non-revoked grant holds key k, as its current key or as a history
\* key whose grace period has not ended
HeldByActiveGrant(k) ==
  \E j \in 1..Len(grants) :
    /\ ~grants[j].revoked
    /\ \/ grants[j].peerKey = k
       \/ \E h \in 1..Len(grants[j].keyHistory) :
            grants[j].keyHistory[h].publicKey = k /\ now < grants[j].keyHistory[h].validUntil

\* C1 as stated: for every grant with revoked = true, isAuthorized(its
\* peerKey, s) is false for every session s.
C1_RevokedKeyNeverAuthorized ==
  \A i \in 1..Len(grants) :
    grants[i].revoked => \A s \in QuerySessions : ~isAuthorized(grants[i].peerKey, s)

\* C1 amended: a revoked grant never authorizes: for every grant with
\* revoked = true, isAuthorized(its peerKey, s) is false for every session s
\* unless a non-revoked grant holds that key.
C1_RevokedGrantExclusion ==
  \A i \in 1..Len(grants) :
    (grants[i].revoked /\ ~HeldByActiveGrant(grants[i].peerKey))
      => \A s \in QuerySessions : ~isAuthorized(grants[i].peerKey, s)

\* a revoked grant that would authorize "dev" were it not revoked
C1_Witness ==
  \E i \in 1..Len(grants) :
    /\ grants[i].revoked
    /\ "inject" \in grants[i].caps
    /\ "dev" \in grants[i].sessions
    /\ ~HeldByActiveGrant(grants[i].peerKey)

\* C2: isAuthorized(senderKey, session) is true if and only if some
\* non-revoked grant has "inject" in caps, has "*" or the session in
\* sessions, and has senderKey as peerKey or as the key of a history entry
\* with now < validUntil.
C2_IsAuthorizedIff ==
  \A k \in TrustKeys, s \in QuerySessions :
    isAuthorized(k, s) <=>
      \E i \in 1..Len(grants) :
        /\ ~grants[i].revoked
        /\ "inject" \in grants[i].caps
        /\ ("*" \in grants[i].sessions \/ s \in grants[i].sessions)
        /\ \/ grants[i].peerKey = k
           \/ \E j \in 1..Len(grants[i].keyHistory) :
                /\ grants[i].keyHistory[j].publicKey = k
                /\ now < grants[i].keyHistory[j].validUntil

\* a key authorized only through a history entry, at the last instant of its
\* grace period
C2_Witness ==
  \E i \in 1..Len(grants) : \E j \in 1..Len(grants[i].keyHistory) :
    LET k == grants[i].keyHistory[j].publicKey
    IN /\ isAuthorized(k, "dev")
       /\ now + 1 = grants[i].keyHistory[j].validUntil
       /\ \A g \in 1..Len(grants) : grants[g].peerKey # k

\* C3 as stated: after an accepted rotation the old key is authorized for
\* every session of the grant at every time before effectiveAt +
\* gracePeriodMs and for no session at any time after it.
C3_GraceAsStated ==
  \A r \in rotLog :
    /\ now < r.validUntil
         => \A s \in grants[r.grant].sessions : isAuthorized(r.oldSignPub, s)
    /\ now > r.validUntil
         => \A s \in QuerySessions : ~isAuthorized(r.oldSignPub, s)

\* C3 amended: before effectiveAt + gracePeriodMs the old key is authorized
\* for every session of the grant as long as the grant is not revoked and
\* its caps include "inject"; after that time it is authorized for no
\* session unless a non-revoked grant has it as current key again or another
\* accepted rotation of the same key is still in its grace period.
C3_GracePeriodAuthorization ==
  \A r \in rotLog :
    /\ (now < r.validUntil /\ ~grants[r.grant].revoked /\ "inject" \in grants[r.grant].caps)
         => \A s \in grants[r.grant].sessions : isAuthorized(r.oldSignPub, s)
    /\ ( /\ now > r.validUntil
         /\ ~\E j \in 1..Len(grants) : ~grants[j].revoked /\ grants[j].peerKey = r.oldSignPub
         /\ ~\E q \in rotLog : q.oldSignPub = r.oldSignPub /\ now < q.validUntil )
         => \A s \in QuerySessions : ~isAuthorized(r.oldSignPub, s)

\* a rotation with a positive grace period, accepted before effectiveAt,
\* seen inside its grace period (after effectiveAt) with the old key authorized
C3_Witness ==
  \E r \in rotLog :
    /\ now < r.validUntil
    /\ now > 0
    /\ grants[r.grant].peerKey # r.oldSignPub
    /\ \A j \in 1..Len(grants) : grants[j].peerKey # r.oldSignPub
    /\ isAuthorized(r.oldSignPub, "dev")

\* C6: no two non-revoked grants have the same peerKey.
C6_OneActiveGrantPerKey ==
  \A i, j \in 1..Len(grants) :
    (i # j /\ ~grants[i].revoked /\ ~grants[j].revoked) => grants[i].peerKey # grants[j].peerKey

\* ------------------------------------------------------------------------
\* Properties of the rate and replay gates
\* ------------------------------------------------------------------------

\* ------------------------------------------------------------------------
\* Properties of the protocol engine
\* ------------------------------------------------------------------------

\* the listener has just handled a claim frame whose token names another subject
ForeignClaimHandled ==
  /\ handled' # handled
  /\ handled'.msg.type = "claim"
  /\ handled'.msg.token # NoToken
  /\ handled'.msg.token.sub # handled'.msg.from

\* C4 as stated: a claim frame from B that carries a token whose sub is not B
\* is answered with reject "token not issued for you", whatever else holds
\* of the frame and the token, and the claimer's call returns Rejected.
C4_ForeignClaimAlwaysNamed ==
  [][/\ ForeignClaimHandled =>
          /\ handled'.reply.type = "reject"
          /\ handled'.reply.reason = "token not issued for you"
     /\ (call'.kind = "claim" /\ call'.by = "reject") => call'.result = "Rejected"]_vars

\* C4: a claim frame whose token names another subject is never acknowledged
\* and never changes the grant store; the listener answers it with reject
\* "token not issued for you" when the frame passes the signature, replay and
\* claims-rate checks and the token parses and was issued by the listener (a
\* frame that fails an earlier check is dropped or rejected for that reason);
\* a claimToken call that a reject frame resolves returns Rejected and adds
\* no peer record.
C4_ForeignClaimRejected ==
  [][/\ ForeignClaimHandled =>
          /\ handled'.reply.type # "ack"
          /\ grants' = grants
          /\ (/\ verifySignature(handled'.msg)
              /\ rpCheckResult(seenNonces, handled'.msg.nonce, handled'.msg.ts, now)
              /\ RateOk(handled'.msg, "claims")
              /\ parseInviteTokenOk(handled'.msg.token, now)
              /\ handled'.msg.token.iss = Self)
             => /\ handled'.reply.type = "reject"
                /\ handled'.reply.reason = "token not issued for you"
     /\ (call.result = "pending" /\ call'.kind = "claim" /\ call'.by = "reject")
          => (call'.result = "Rejected" /\ iPeers' = iPeers)]_vars

\* C claimed B's token with claimToken, was told so and returned Rejected
C4_Witness ==
  /\ me = "C"
  /\ handled.msg.type = "claim"
  /\ handled.msg.from = "C"
  /\ handled.msg.token = Token(Self, Self)
  /\ handled.reply.reason = "token not issued for you"
  /\ call.by = "reject"
  /\ call.result = "Rejected"
  /\ grants = <<>>

\* C5: a claim frame that carries a token the listener has acknowledged
\* before is not acknowledged again and leaves the grant store as it is,
\* also when the grant the first claim made has been revoked since.
C5_TokenConsumedOnce ==
  [][(/\ handled' # handled
      /\ handled'.msg.type = "claim"
      /\ handled'.msg.token \in consumed)
     => (handled'.reply.type # "ack" /\ grants' = grants)]_vars

\* the onInject invocations made for frames the current call wrote
InvocationsOfCall ==
  Cardinality({i \in 1..Len(onInjectLog) : onInjectLog[i].nonce \in call.sent})

\* C7: when a sendP2PInject call has returned OK, onInject was invoked
\* exactly once for it, however many connection events the call saw.
C7_InjectedExactlyOnce ==
  (call.kind = "inject" /\ call.result = "OK") => InvocationsOfCall = 1

\* the two stores as a successful claim of the call's token leaves them
ClaimRecorded ==
  /\ \E i \in 1..Len(grants) :
       /\ ~grants[i].revoked
       /\ grants[i].peerKey = me
       /\ call.token.ses \subseteq grants[i].sessions
       /\ call.token.cap \subseteq grants[i].caps
       /\ grants[i].peerEncryptPub = EncOf(me)
  /\ \E i \in 1..Len(iPeers) :
       /\ iPeers[i].publicKey = call.token.iss
       /\ call.token.ses \subseteq iPeers[i].sessions
       /\ iPeers[i].encryptPub = EncOf(call.token.iss)

\* C8: when claimToken(t) returns OK, the issuer holds a non-revoked grant
\* for the claimer's key with t's sessions and caps and the claimer's
\* encryption key, and the claimer holds a peer record for t.iss with t's
\* sessions and the issuer's encryption key.
C8_ClaimOkMeansRecorded ==
  [][(call.result = "pending" /\ call'.kind = "claim" /\ call'.result = "OK")
     => ClaimRecorded']_vars


\* C9: once check(n, ts) has returned true at time t0, every later
\* check(n, ts') with ts' in [t0 - maxAge, t0 + maxSkew] returns false, at
\* whatever time it is made and also after cleanup() has run.
C9_ReplayRejected ==
  [][\A a \in rpAccepted :
       ( /\ rpRet' # rpRet
         /\ rpRet'.nonce = a[1]
         /\ rpRet'.ts >= a[2] - MaxAgeMs
         /\ rpRet'.ts <= a[2] + MaxClockSkewMs )
       => ~rpRet'.ok]_vars

\* C10: once check(p, c) has returned false with blockedUntil = B, every
\* further check(p, c) made at a time now < B returns false and leaves
\* blockedUntil equal to B.
C10_BlockNotReset ==
  [][\A p \in RateKeys, c \in LimitClasses :
       ( /\ rlRet' # rlRet
         /\ rlRet'.peerKey = p /\ rlRet'.limitType = c
         /\ rlBlocked[<<p, c>>] # Undef
         /\ now < rlBlocked[<<p, c>>] )
       => (~rlRet'.ok /\ rl'[<<p, c>>].blockedUntil = rlBlocked[<<p, c>>])]_vars

\* a check has returned false while a block set by an earlier check was in force
C10_Witness ==
  /\ rlCalls >= 3
  /\ ~rlRet.ok
  /\ Truthy(rl[<<rlRet.peerKey, rlRet.limitType>>].blockedUntil)
  /\ now > 0
  /\ now < rl[<<rlRet.peerKey, rlRet.limitType>>].blockedUntil
  /\ limits[rlRet.limitType].maxRequests > 0

\* the requests of st made less than a window before now
C11_Recent(st, config) ==
  SelectSeq(st.requests, LAMBDA ts : now - ts < config.windowMs)

C12_ReplayCheckIff ==
  [][(rpRet' # rpRet)
     => /\ rpRet'.ok <=> ( /\ now - MaxAgeMs <= rpRet'.ts
                           /\ rpRet'.ts <= now + MaxClockSkewMs
                           /\ seenNonces[rpRet'.nonce] = Undef )
        /\ rpRet'.ok => seenNonces'[rpRet'.nonce] = rpRet'.ts
        /\ ~rpRet'.ok => seenNonces' = seenNonces]_vars

\* a check of a timestamp exactly maxAge old returned true and recorded the
\* nonce, after an earlier check
C12_Witness ==
  /\ rpCalls >= 2
  /\ rpRet.ok
  /\ rpRet.ts + MaxAgeMs = now
  /\ seenNonces[rpRet.nonce] = rpRet.ts
  /\ \E n \in Nonces : n # rpRet.nonce /\ seenNonces[n] # Undef

\* C13: when processPeerKeyRotation has processed a rotation and updated a
\* record, processing the same rotation once more leaves the grant store and
\* the peer store as they are.
C13_RotationIdempotent ==
  [][\A r \in Rotations :
       ( /\ ops' = ops + 1
         /\ rotationAccepted(grants, peers, r)
         /\ grants' = rotateGrants(grants, r)
         /\ peers' = rotatePeers(peers, r) )
       => ( /\ rotateGrants(grants', r) = grants'
            /\ rotatePeers(peers', r) = peers' )]_vars

\* C14: every call that has been started eventually returns: when no ack or
\* reject arrives, also after a completed handshake, the request timer
\* returns Offline.
C14_CallReturns == (call.result = "pending") ~> (call.result # "pending")

\* the hello of connection c was refused by the listener: the listener has
\* taken the hello and its handshake is not complete
C15_HelloRefused(c) ==
  /\ conns[c].st = "hs"
  /\ conns[c].server = Self
  /\ conns[c].toResp = <<>>
  /\ ~conns[c].hs

\* C15: when the hello offers no version in [MIN_PROTOCOL_VERSION,
\* PROTOCOL_VERSION], the listener replies reject "no common protocol
\* version", and the call whose hello was refused and which has read that
\* reply returns VersionMismatch.
C15_VersionMismatch ==
  [][/\ \A c \in Conns :
          ( /\ conns[c].server = Self
            /\ conns[c].st = "hs"
            /\ conns[c].toResp # <<>>
            /\ Head(conns[c].toResp).type = "hello"
            /\ ~conns[c].hs
            /\ {v \in Head(conns[c].toResp).versions :
                  v >= MIN_PROTOCOL_VERSION /\ v <= PROTOCOL_VERSION} = {}
            /\ conns'[c].st = "hs"
            /\ conns'[c].toResp = Tail(conns[c].toResp) )
          => ( /\ conns'[c].toInit # <<>>
               /\ conns'[c].toInit[Len(conns'[c].toInit)].type = "reject"
               /\ conns'[c].toInit[Len(conns'[c].toInit)].reason = "no common protocol version"
               /\ ~conns'[c].hs )
     /\ ( /\ \E c \in Conns : C15_HelloRefused(c) /\ conns[c].toInit = <<>>
          /\ call.result = "pending"
          /\ call'.result # "pending" )
        => call'.result = "VersionMismatch"]_vars

\* the invalidMessages bucket of the sender of the captured frame
C16_Bucket == <<handled.msg.from, "invalidMessages">>

C17_Names == {shortKey(Self), "nobody"}

\* C17: sendP2PInject for a known peer and a session that is neither in
\* peer.sessions nor covered by "*" returns Rejected at once, with no timer
\* set, no socket opened and no frame written, and nothing is opened or
\* written for that call afterwards.
C17_SessionRefusedLocally ==
  [][/\ \A name \in C17_Names, session \in Sessions :
          ( /\ StartInject(name, session)
            /\ findPeer(iPeers, name) # 0
            /\ "*" \notin iPeers[findPeer(iPeers, name)].sessions
            /\ session \notin iPeers[findPeer(iPeers, name)].sessions )
          => ( /\ call'.result = "Rejected"
               /\ ~call'.timer
               /\ call'.sent = {}
               /\ conns' = conns
               /\ nextNonce' = nextNonce
               /\ \A c \in Conns : conns[c].st \notin {"hs", "req"} )
     /\ ( /\ call.kind = "inject"
          /\ call.result = "Rejected"
          /\ call.sent = {}
          /\ call' = call )
        => (conns' = conns /\ nextNonce' = nextNonce)]_vars

\* an inject into session "prod" of a peer whose record allows only "dev"
\* has returned Rejected
C17_Witness ==
  /\ call.kind = "inject"
  /\ call.session = "prod"
  /\ call.result = "Rejected"
  /\ call.sent = {}
  /\ findPeer(iPeers, shortKey(Self)) # 0
  /\ iPeers[findPeer(iPeers, shortKey(Self))].sessions = {"dev"}
  /\ \A c \in Conns : conns[c].st \notin {"hs", "req"}

\* C18: when onInject throws for an inject the listener accepted, the
\* listener's handler completes with the reply reject "inject failed" on that
\* socket and no ack, and a call that reads this reply returns Rejected.
C18_InjectFailedRejected ==
  [][/\ \A c \in Conns :
          (ListenerData(c, FALSE) /\ onInjectLog' # onInjectLog)
          => ( /\ handled'.msg = Head(conns[c].toResp)
               /\ handled'.msg.type = "inject"
               /\ handled'.reply = RejectFrame(handled'.msg.session, "inject failed")
               /\ conns[c].st # "closed"
                    => conns'[c].toInit = Append(conns[c].toInit, handled'.reply) )
     /\ \A c \in Conns :
          ( /\ ResponseData(c)
            /\ call.result = "pending"
            /\ Head(conns[c].toInit).type = "reject"
            /\ Head(conns[c].toInit).reason = "inject failed" )
          => (call'.result = "Rejected" /\ call'.resolved)]_vars

\* a call has returned Rejected after onInject was invoked for its frame and
\* the listener replied reject "inject failed"
C18_Witness ==
  /\ call.kind = "inject"
  /\ call.result = "Rejected"
  /\ call.by = "reject"
  /\ handled.reply.type = "reject"
  /\ handled.reply.reason = "inject failed"
  /\ handled.msg.nonce \in call.sent
  /\ onInjectLog # <<>>
  /\ onInjectLog[Len(onInjectLog)].nonce = handled.msg.nonce

\* C19: when the listener's rate check refuses a claim or an inject, it
\* replies reject "rate limited", and the call that reads this reply,
\* claimToken as well as sendP2PInject, returns RateLimited.
C19_RateLimitedCode ==
  [][/\ \A c \in Conns :
          ( /\ ListenerData(c, TRUE)
            /\ Head(conns[c].toResp).type \in {"claim", "inject"}
            /\ verifySignature(Head(conns[c].toResp))
            /\ rpCheckResult(seenNonces, Head(conns[c].toResp).nonce, Head(conns[c].toResp).ts, now)
            /\ ~RateOk(Head(conns[c].toResp),
                       IF Head(conns[c].toResp).type = "claim" THEN "claims" ELSE "injects") )
          => ( /\ handled'.reply.type = "reject"
               /\ handled'.reply.reason = "rate limited" )
     /\ \A c \in Conns :
          ( /\ ResponseData(c)
            /\ call.result = "pending"
            /\ Head(conns[c].toInit).type = "reject"
            /\ Head(conns[c].toInit).reason = "rate limited" )
          => call'.result = "RateLimited"]_vars

\* C20: a save is atomic: after a crash every store file holds either the
\* complete contents it had before the save or the complete new contents.
C20_SaveAtomic ==
  crashed =>
    \A f \in FileNames :
      \/ disk[f] = FileOf(IF f = "access" THEN grants ELSE peers)
      \/ saving.file = f /\ disk[f] \in {FileOf(saving.old), FileOf(saving.new)}

\* C21: markInviteClaimed on an invite that is already claimed leaves the
\* invite store, and so claimedAt and claimedBy, unchanged, and so does
\* markInviteClaimed on a token that has no invite record.
C21_MarkClaimedOnce ==
  [][\A token \in Tokens, claimedBy \in TrustKeys :
       ( /\ MarkInviteClaimed(token, claimedBy)
         /\ \/ InviteIdx(invites, token) = 0
            \/ invites[InviteIdx(invites, token)].claimedAt # Undef )
       => invites' = invites]_vars

\* markInviteClaimed has just been called, at a later time and for another
\* claimer, on an invite that was already claimed
C21_Witness ==
  /\ invRet.op = "mark"
  /\ invRet.found
  /\ invRet.claimed
  /\ invites[InviteIdx(invites, invRet.token)].claimedAt < now
  /\ invites[InviteIdx(invites, invRet.token)].claimedBy # invRet.by

\* C22: on every connection the listener acts on a claim, inject or key-rotation
\* frame only after the hello / hello-ack exchange on that connection: a typed
\* frame handled before it changes no grant and no peer, invokes no onInject
\* and is not answered.
TypedFrames == {"claim", "inject", "key-rotation"}

C22_HandshakeFirst ==
  [][\A c \in Conns :
       (/\ ListenerData(c, TRUE)
        /\ Head(conns[c].toResp).type \in TypedFrames
        /\ ~conns[c].hs)
       => (/\ grants' = grants
           /\ peers' = peers
           /\ onInjectLog' = onInjectLog
           /\ conns'[c].toInit = conns[c].toInit)]_vars

\* C23: the listener handles at most one typed request per connection: the
\* step that writes an ack or a reject closes the connection, and a claim,
\* inject or key-rotation frame that arrives on a connection whose last typed
\* frame was answered changes no grant and no peer, invokes no onInject and
\* is not answered.  (B holds one connection in this specification.)
C23_OneRequestPerConnection ==
  [][\A c \in Conns :
       (ListenerData(c, TRUE) /\ Head(conns[c].toResp).type \in TypedFrames)
       => /\ Len(conns'[c].toInit) > Len(conns[c].toInit) => conns'[c].st = "closed"
          /\ handled.reply.type \in {"ack", "reject"}
             => (/\ grants' = grants
                 /\ peers' = peers
                 /\ onInjectLog' = onInjectLog
                 /\ conns'[c].toInit = conns[c].toInit)]_vars

\* C24 as stated: the listener invokes onInject for an inject frame only if
\* its signature verified under frame.from, its nonce passed the replay check,
\* the injects rate check passed and the sender was authorized for the session
\* when the frame was processed; every inject for a session the sender is not
\* granted is answered with reject "unauthorized" and invokes no onInject.
C24_Checked(msg) ==
  /\ verifySignature(msg)
  /\ rpCheckResult(seenNonces, msg.nonce, msg.ts, now)
  /\ RateOk(msg, "injects")

C24_Granted(msg) == isAuthorizedAt(grants, msg.from, msg.session, now)

C24_Refused(c, msg) ==
  /\ conns'[c].toInit = Append(conns[c].toInit, RejectFrame(msg.session, "unauthorized"))
  /\ onInjectLog' = onInjectLog

C24_UngrantedAlwaysRejected ==
  [][\A c \in Conns :
       (ListenerData(c, TRUE) /\ Head(conns[c].toResp).type = "inject")
       => LET msg == Head(conns[c].toResp)
          IN /\ onInjectLog' # onInjectLog => C24_Checked(msg) /\ C24_Granted(msg)
             /\ ~C24_Granted(msg) => C24_Refused(c, msg)]_vars

\* C24 amended: onInject is invoked only for a frame that passed the three
\* checks from an authorized sender; an inject that passed the three checks
\* for a session the sender is not granted is answered with reject
\* "unauthorized"; no inject of a sender without the grant invokes onInject.
C24_InjectGuarded ==
  [][\A c \in Conns :
       (ListenerData(c, TRUE) /\ Head(conns[c].toResp).type = "inject")
       => LET msg == Head(conns[c].toResp)
          IN /\ onInjectLog' # onInjectLog => C24_Checked(msg) /\ C24_Granted(msg)
             /\ C24_Checked(msg) /\ ~C24_Granted(msg) => C24_Refused(c, msg)
             /\ ~C24_Granted(msg) => onInjectLog' = onInjectLog]_vars

\* B, granted "dev", had an inject for another session refused, and an
\* inject of B reached onInject
C24_Witness ==
  /\ handled.msg.type = "inject"
  /\ handled.reply = RejectFrame(handled.msg.session, "unauthorized")
  /\ isAuthorizedAt(grants, "B", "dev", now)
  /\ ~isAuthorizedAt(grants, "B", handled.msg.session, now)

\* C25 as stated: the listener creates or extends an access grant only while
\* it processes a claim frame signed by its sender K that passed the replay
\* check and carries a token whose iss is the listener's key and whose sub is
\* K; the grant is for K and its sessions and caps are those of the token.
C25_Extended ==
  \/ Len(grants') > Len(grants)
  \/ \E i \in 1..Len(grants) :
        i <= Len(grants') /\ (grants'[i].sessions # grants[i].sessions
                              \/ grants'[i].caps # grants[i].caps)

C25_ClaimOf(c, msg) ==
  /\ ListenerData(c, TRUE)
  /\ msg.type = "claim"
  /\ verifySignature(msg)
  /\ rpCheckResult(seenNonces, msg.nonce, msg.ts, now)
  /\ parseInviteTokenOk(msg.token, now)
  /\ msg.token.iss = Self
  /\ msg.token.sub = msg.from

C25_GrantIsTheTokens ==
  [][C25_Extended
     => \E c \in Conns :
          LET msg == Head(conns[c].toResp)
              g == grants'[getGrantForPeer(grants', msg.from)]
          IN /\ C25_ClaimOf(c, msg)
             /\ g.peerKey = msg.from
             /\ g.sessions = msg.token.ses
             /\ g.caps = msg.token.cap]_vars

\* C25 amended: as stated, except that a claim by a key that is the current
\* key of a live grant extends it: the grant's sessions and caps are then
\* those it had together with those of the token.
C25_Live(gs, key) == FirstIndex({j \in 1..Len(gs) : gs[j].peerKey = key /\ ~gs[j].revoked})

C25_Before(key) ==
  LET i == C25_Live(grants, key)
  IN IF i = 0 THEN [sessions |-> {}, caps |-> {}]
     ELSE [sessions |-> grants[i].sessions, caps |-> grants[i].caps]

C25_GrantOnlyByClaim ==
  [][C25_Extended
     => \E c \in Conns :
          LET msg == Head(conns[c].toResp)
              g == grants'[C25_Live(grants', msg.from)]
          IN /\ C25_ClaimOf(c, msg)
             /\ g.peerKey = msg.from
             /\ g.sessions = C25_Before(msg.from).sessions \cup msg.token.ses
             /\ g.caps = C25_Before(msg.from).caps \cup msg.token.cap]_vars

\* B claimed both invites: its grant holds the sessions of the two tokens
C25_Witness ==
  /\ handled.msg.type = "claim"
  /\ handled.reply.type = "ack"
  /\ \E i \in 1..Len(grants) :
        grants[i].peerKey = "B" /\ grants[i].sessions = {"dev", "prod"}

\* C26: a claim or inject frame whose signature does not verify under its
\* from key, or whose nonce and timestamp fail the replay check, is dropped
\* silently: the listener writes no reply, invokes no onInject and leaves the
\* grant, peer and invite stores as they were.
C26_Rejected(msg) ==
  \/ msg.sig # msg.from
  \/ ~rpCheckResult(seenNonces, msg.nonce, msg.ts, now)

C26_DroppedSilently ==
  [][\A c \in Conns :
       (/\ ListenerData(c, TRUE)
        /\ Head(conns[c].toResp).type \in {"claim", "inject"}
        /\ C26_Rejected(Head(conns[c].toResp)))
       => (/\ conns'[c].toInit = conns[c].toInit
           /\ onInjectLog' = onInjectLog
           /\ grants' = grants
           /\ peers' = peers
           /\ invites' = invites)]_vars

\* a frame signed by another key and a frame written twice were both dropped:
\* the last one handled is the repeated frame
C26_Witness ==
  /\ handled.msg.type \in {"claim", "inject"}
  /\ handled.msg.sig = handled.msg.from
  /\ handled.reply = NoFrame
  /\ seenNonces[handled.msg.nonce] # Undef
  /\ Len(rl[<<"B", "invalidMessages">>].requests) = 2

\* C27: every frame the listener receives that does not parse, whose
\* signature does not verify or that fails the replay check charges the
\* invalidMessages class of its source exactly once: one rateLimiter.check
\* for that class is applied to the limiter, for the frame's from key or, for
\* a line that has none, for some peer.
C27_Charge(key) ==
  [rl EXCEPT ![<<key, "invalidMessages">>] = rlCheckState(@, limits["invalidMessages"], now)]

C27_Invalid(msg) ==
  \/ msg.type = "garbage"
  \/ /\ msg.type \in {"claim", "inject"}
     /\ \/ ~verifySignature(msg)
        \/ ~rpCheckResult(seenNonces, msg.nonce, msg.ts, now)

C27_InvalidCharged ==
  [][\A c \in Conns :
       (ListenerData(c, TRUE) /\ C27_Invalid(Head(conns[c].toResp)))
       => LET msg == Head(conns[c].toResp)
          IN IF msg.type = "garbage"
             THEN \E key \in RateKeys : rl' = C27_Charge(key)
             ELSE rl' = C27_Charge(msg.from)]_vars

\* C28: while a peer is blocked in the invalidMessages class the listener
\* accepts none of its claim or inject frames: handling such a frame creates
\* or extends no grant and invokes no onInject.
C28_BlockedPeerRefused ==
  [][\A c \in Conns :
       (/\ ListenerData(c, TRUE)
        /\ Head(conns[c].toResp).type \in {"claim", "inject"}
        /\ RlBlockedNow(rl[<<Head(conns[c].toResp).from, "invalidMessages">>], now))
       => (grants' = grants /\ onInjectLog' = onInjectLog)]_vars

\* C29: when the handshake of a connection completes, the initiator holds
\* the version the listener settled on and wrote in its hello-ack; that
\* version is the largest one offered in the initiator's hello that lies in
\* [MIN_PROTOCOL_VERSION, PROTOCOL_VERSION]; and the request frame the
\* initiator writes carries exactly that version.
C29_InRange == {v \in helloVersions : v >= MIN_PROTOCOL_VERSION /\ v <= PROTOCOL_VERSION}

C29_NegotiatedVersion ==
  [][\A c \in Conns :
       (HandshakeData(c) /\ conns'[c].st = "req")
       => LET ack == Head(conns[c].toInit)
              request == conns'[c].toResp[Len(conns'[c].toResp)]
          IN /\ conns[c].hs
             /\ ack = HelloAckFrame(Max(C29_InRange), c)
             /\ request.type \in {"claim", "inject"}
             /\ request.v = ack.version]_vars

\* a hello that offered a version above the range led to a request of the
\* lower, supported version
C29_Witness ==
  /\ PROTOCOL_VERSION + 1 \in helloVersions
  /\ \E c \in Conns :
        /\ conns[c].st = "req"
        /\ conns[c].hs
        /\ conns[c].toResp # <<>>
        /\ Head(conns[c].toResp).type = "inject"
        /\ Head(conns[c].toResp).v = MIN_PROTOCOL_VERSION

\* C30: on one connection the request and its response are ordered: the
\* step that invokes onInject writes nothing; an ack for an inject is written
\* only by the handler that was suspended on that frame's onInject call, after
\* the call was logged; and the call acts on an ack or a reject only on a
\* connection on which it has written its request.
C30_Invocation(msg) == [session |-> msg.session, from |-> msg.from, nonce |-> msg.nonce]

C30_Wrote(c) == Len(conns'[c].toInit) > Len(conns[c].toInit)

C30_RequestResponseOrdered ==
  [][\A c \in Conns :
       /\ onInjectLog' # onInjectLog => ~C30_Wrote(c)
       /\ (/\ C30_Wrote(c)
           /\ conns'[c].toInit[Len(conns'[c].toInit)].type = "ack"
           /\ conns'[c].toInit[Len(conns'[c].toInit)].session # "")
          => (/\ awaiting[c].msg.type = "inject"
              /\ \E i \in 1..Len(onInjectLog) : onInjectLog[i] = C30_Invocation(awaiting[c].msg))
       /\ (ResponseData(c) /\ call'.result # call.result)
          => (conns[c].st = "req" /\ call.sent # {})]_vars

\* onInject was called for B's inject and has not returned: nothing has been
\* written in reply yet
C30_Witness ==
  \E c \in Conns :
    /\ awaiting[c].msg.type = "inject"
    /\ awaiting[c].reply.type = "ack"
    /\ conns[c].st = "req"
    /\ conns[c].toInit = <<>>
    /\ onInjectLog = <<C30_Invocation(awaiting[c].msg)>>

\* C31: the inject the initiator writes is encrypted with the ephemeral keys,
\* and carries its ephemeralPub, exactly when the negotiated version is >= 2
\* and the hello and the hello-ack both carried an ephemeralPub, and with the
\* static key otherwise; for every inject the listener accepts, the mode it
\* decrypts with is the mode the frame was encrypted with.
C31_Negotiated ==
  Max({v \in helloVersions : v >= MIN_PROTOCOL_VERSION /\ v <= PROTOCOL_VERSION})

C31_ModeOf(ephemeral) == IF ephemeral THEN "ephemeral" ELSE "static"

C31_SameMode ==
  [][\A c \in Conns :
       /\ (/\ HandshakeData(c)
           /\ conns'[c].st = "req"
           /\ conns'[c].toResp[Len(conns'[c].toResp)].type = "inject")
          => LET ack == Head(conns[c].toInit)
                 request == conns'[c].toResp[Len(conns'[c].toResp)]
                 both == HelloFrame(me, calls).ephemeralPub # "" /\ ack.ephemeralPub # ""
             IN /\ request.payload.mode = C31_ModeOf(C31_Negotiated >= 2 /\ both)
                /\ request.ephemeralPub # "" <=> request.payload.mode = "ephemeral"
       /\ (/\ ListenerData(c, TRUE)
           /\ Head(conns[c].toResp).type = "inject"
           /\ onInjectLog' # onInjectLog)
          => LET msg == Head(conns[c].toResp)
             IN /\ msg.payload.mode = C31_ModeOf(msg.v >= 2 /\ msg.ephemeralPub # "")
                /\ msg.payload.mode = C31_ModeOf(C31_Negotiated >= 2)]_vars

\* an inject sent after version 1 was negotiated was accepted with the static key
C31_Witness ==
  /\ PROTOCOL_VERSION \notin helloVersions
  /\ handled.msg.type = "inject"
  /\ handled.msg.payload.mode = "static"
  /\ handled.reply.type = "ack"
  /\ onInjectLog # <<>>

\* ---- C32 ----
\* C32: processPeerKeyRotation on a rotation whose signature verifies and
\* whose oldSignPub is the current key of a non-revoked grant (of a peer)
\* appends to that record one history entry for the old key, valid until
\* effectiveAt + gracePeriodMs, and sets the record's current keys to the new
\* ones; a store without a matching record, and both stores when the
\* signature does not verify, stay as they were; the call returns true
\* exactly when a record was updated.
C32_Entry(key, enc, from, rotation) ==
  [publicKey |-> key, encryptPub |-> enc, validFrom |-> from,
   validUntil |-> rotation.effectiveAt + rotation.gracePeriodMs]

C32_RotationApplied ==
  [][\A rotation \in Rotations : ProcessPeerKeyRotation(rotation) =>
       LET gi == FirstIndex({j \in 1..Len(grants) :
                               grants[j].peerKey = rotation.oldSignPub /\ ~grants[j].revoked})
           pi == FirstIndex({j \in 1..Len(peers) : peers[j].publicKey = rotation.oldSignPub})
           verified == rotation.sig = rotation.oldSignPub
       IN /\ (verified /\ gi # 0) =>
               /\ grants'[gi].keyHistory =
                    Append(grants[gi].keyHistory,
                           C32_Entry(rotation.oldSignPub, grants[gi].peerEncryptPub,
                                     grants[gi].created, rotation))
               /\ grants'[gi].peerKey = rotation.newSignPub
               /\ grants'[gi].peerEncryptPub = EncOf(rotation.newSignPub)
               /\ \A j \in 1..Len(grants) : j # gi => grants'[j] = grants[j]
          /\ (verified /\ pi # 0) =>
               /\ peers'[pi].keyHistory =
                    Append(peers[pi].keyHistory,
                           C32_Entry(rotation.oldSignPub, peers[pi].encryptPub,
                                     peers[pi].added, rotation))
               /\ peers'[pi].publicKey = rotation.newSignPub
               /\ peers'[pi].encryptPub = EncOf(rotation.newSignPub)
               /\ \A j \in 1..Len(peers) : j # pi => peers'[j] = peers[j]
          /\ (~verified \/ gi = 0) => grants' = grants
          /\ (~verified \/ pi = 0) => peers' = peers
          /\ Len(grants') = Len(grants) /\ Len(peers') = Len(peers)
          /\ rotationAccepted(grants, peers, rotation)
               <=> (grants' # grants \/ peers' # peers)]_vars

\* one rotation from B to C, with the longest grace period, was applied to
\* the grant and to the peer record of B
C32_Witness ==
  /\ Len(grants) >= 1 /\ Len(peers) >= 1
  /\ grants[1].peerKey = "C" /\ Len(grants[1].keyHistory) = 1
  /\ grants[1].keyHistory[1].publicKey = "B"
  /\ peers[1].publicKey = "C" /\ Len(peers[1].keyHistory) = 1
  /\ peers[1].keyHistory[1].validUntil = MaxGrace
  /\ ops >= 1

\* ---- C33 ----
\* C33: getGrantForPeer(key) returns a grant only if the grant is not
\* revoked and key is its current peerKey or a key of its keyHistory with
\* now < validUntil; for a history key whose validUntil has passed it
\* returns no grant.
C33_SameSearchAsIsAuthorized ==
  \A key \in TrustKeys :
    LET i == getGrantForPeer(grants, key)
    IN i # 0 =>
         /\ ~grants[i].revoked
         /\ \/ grants[i].peerKey = key
            \/ \E j \in 1..Len(grants[i].keyHistory) :
                 /\ grants[i].keyHistory[j].publicKey = key
                 /\ grants[i].keyHistory[j].validUntil # 0
                 /\ now < grants[i].keyHistory[j].validUntil

\* ---- C34 ----
\* C34: in every reachable state the keyHistory entries of any single grant
\* or peer have pairwise non-overlapping [validFrom, validUntil] intervals.
C34_Disjoint(hist) ==
  \A j, k \in 1..Len(hist) :
    j < k => \/ hist[j].validUntil < hist[k].validFrom
             \/ hist[k].validUntil < hist[j].validFrom

C34_HistoryIntervalsDisjoint ==
  /\ \A i \in 1..Len(grants) : C34_Disjoint(grants[i].keyHistory)
  /\ \A i \in 1..Len(peers) : C34_Disjoint(peers[i].keyHistory)

\* ---- C35 ----
\* C35: cleanupExpiredKeyHistory removes from every grant and peer exactly
\* the history entries with validUntil <= now and keeps all others, and a
\* second run at the same time changes nothing more.
C35_Unexpired(h) == h.validUntil > now

C35_RemovesExactlyExpired ==
  [][CleanupExpiredKeyHistory =>
       /\ Len(grants') = Len(grants) /\ Len(peers') = Len(peers)
       /\ \A i \in 1..Len(grants) :
            grants'[i] = [grants[i] EXCEPT !.keyHistory = SelectSeq(@, C35_Unexpired)]
       /\ \A i \in 1..Len(peers) :
            peers'[i] = [peers[i] EXCEPT !.keyHistory = SelectSeq(@, C35_Unexpired)]
       /\ cleanupOn(grants', now) = grants'
       /\ cleanupOn(peers', now) = peers']_vars

\* ---- C36 ----
\* C36: an initiator call returns OK only on an ack frame that the targeted
\* peer produced (its signature verifies under that peer's signing key); an
\* ack of any other party does not make the call succeed and, for
\* claimToken, adds no peer record.
C36_Target == IF call.kind = "claim" THEN call.token.iss ELSE Self

C36_AckFromTargetOnly ==
  [][\A c \in Conns :
       (/\ ResponseData(c)
        /\ \/ call.result = "pending" /\ call'.result = "OK"
           \/ iPeers' # iPeers)
       => /\ Head(conns[c].toInit).type = "ack"
          /\ Head(conns[c].toInit).sig = C36_Target]_vars

\* ---- C37 ----
C37_Keys(g) == {g.peerKey} \cup {g.keyHistory[j].publicKey : j \in 1..Len(g.keyHistory)}

C37_Refused(gs, i, t) ==
  \A k \in C37_Keys(gs[i]), s \in QuerySessions : ~isAuthorizedAt(gs, k, s, t)

\* some other grant than i authorizes key k for session s
C37_OtherHolder(gs, i, k, s, t) ==
  \E j \in 1..Len(gs) :
    /\ j # i
    /\ ~gs[j].revoked
    /\ SessionMatch(gs[j], s)
    /\ "inject" \in gs[j].caps
    /\ \/ gs[j].peerKey = k
       \/ \E h \in 1..Len(gs[j].keyHistory) :
            /\ gs[j].keyHistory[h].publicKey = k
            /\ gs[j].keyHistory[h].validUntil # 0
            /\ t < gs[j].keyHistory[h].validUntil

C37_Revoked(n) == FirstIndex({j \in 1..Len(grants) : GrantMatches(grants[j], n)})

\* C37 as stated: after revokePeer succeeded on a grant, and as long as no
\* new grant is created, isAuthorized returns false for the grant's current
\* key and for every key in its keyHistory, also inside a grace period.
C37_RevokedKeysRefused ==
  [][/\ \A n \in GrantNames :
          RevokePeer(n) => C37_Refused(grants', C37_Revoked(n), now')
     /\ Len(grants') = Len(grants) =>
          \A i \in 1..Len(grants) :
            (grants[i].revoked /\ C37_Refused(grants, i, now))
              => C37_Refused(grants', i, now')]_vars

\* C37 amended: after revokePeer succeeded on a grant the grant stays
\* revoked, no other grant is changed by the call, and isAuthorized returns
\* false for the grant's current key and every key in its keyHistory, also
\* inside a grace period, except for a key that another non-revoked grant
\* with the inject capability and a matching session holds as its current
\* peerKey or as a keyHistory key with now < validUntil.
C37_RevokedGrantRefused ==
  [][/\ \A n \in GrantNames :
          RevokePeer(n) =>
            /\ C37_Revoked(n) # 0
            /\ grants'[C37_Revoked(n)].revoked
            /\ \A j \in 1..Len(grants) : j # C37_Revoked(n) => grants'[j] = grants[j]
     /\ \A i \in 1..Len(grants) : grants[i].revoked => grants'[i].revoked
     /\ \A i \in 1..Len(grants') :
          grants'[i].revoked =>
            \A k \in C37_Keys(grants'[i]), s \in QuerySessions :
              isAuthorizedAt(grants', k, s, now') => C37_OtherHolder(grants', i, k, s, now')]_vars

\* a revoked grant whose rotated-away key is inside its grace period and is
\* refused, while another grant is live
C37_Witness ==
  \E i \in 1..Len(grants) :
    /\ grants[i].revoked
    /\ Len(grants[i].keyHistory) >= 1
    /\ now < grants[i].keyHistory[1].validUntil
    /\ C37_Refused(grants, i, now)
    /\ \E j \in 1..Len(grants) : ~grants[j].revoked

\* ---- C38 ----
\* C38: after a sendP2PInject, claimToken or sendKeyRotation call has
\* resolved with a result (for example Offline from the request timeout
\* firing during the handshake), the call writes no further frame on any
\* connection.
C38_NoWriteAfterResult ==
  [][(call.result \notin {"none", "pending"} /\ calls' = calls)
       => /\ call'.sent = call.sent
          /\ \A c \in Conns : ~(HandshakeData(c) /\ conns'[c].st = "req")]_vars

\* ---- C39 ----
\* C39: for each (peer, limit class), when unblock, clear and clearPeer are
\* not called, the number of RateLimiter.check calls that return true inside
\* any interval of length windowMs never exceeds maxRequests, for every
\* configuration.
C39_TrueIn(k, from, windowMs) ==
  Cardinality({i \in 1..Len(rlTrue[k]) : from <= rlTrue[k][i] /\ rlTrue[k][i] < from + windowMs})

C39_WindowBound ==
  \A k \in RateKeys \X LimitClasses, from \in 0..now :
    C39_TrueIn(k, from, limits[k[2]].windowMs) <= limits[k[2]].maxRequests

\* ---- C40 ----
\* C40: cleanupExpiredKeyHistory never changes an authorization outcome:
\* isAuthorized returns the same value before and after it for every key and
\* session, and the current keys, sessions, caps and revoked flags of all
\* records are unchanged.
C40_CleanupKeepsAuthorization ==
  [][CleanupExpiredKeyHistory =>
       /\ \A k \in TrustKeys, s \in QuerySessions :
            isAuthorizedAt(grants', k, s, now') = isAuthorizedAt(grants, k, s, now)
       /\ Len(grants') = Len(grants)
       /\ \A i \in 1..Len(grants) :
            grants'[i] = [grants[i] EXCEPT !.keyHistory = grants'[i].keyHistory]
       /\ Len(peers') = Len(peers)
       /\ \A i \in 1..Len(peers) :
            peers'[i] = [peers[i] EXCEPT !.keyHistory = peers'[i].keyHistory]]_vars

\* two rotations were accepted on the grant, the cleanup removed the history
\* entry of the first, and the key of the second is inside its grace period
\* and authorized
C40_Witness ==
  /\ Cardinality(rotLog) = 2
  /\ Len(grants) >= 1
  /\ Len(grants[1].keyHistory) = 1
  /\ now < grants[1].keyHistory[1].validUntil
  /\ grants[1].keyHistory[1].publicKey # grants[1].peerKey
  /\ isAuthorized(grants[1].keyHistory[1].publicKey, "dev")

====
